---------------------------- MODULE Spec2Model ----------------------------
(***************************************************************************)
(* LiveDrops API: the challenge/session authenticator, the launch state    *)
(* machine of a Drop and the action ledger (votes and their tally),        *)
(* modelled from apps/api/src.  Every `await` of a handler is a point at   *)
(* which other handlers may run, so a handler is a sequence of atomic      *)
(* steps separated at its awaits; the synchronous code between two awaits  *)
(* is one step.                                                            *)
(***************************************************************************)
EXTENDS Integers, Sequences, FiniteSets, TLC

(***************************************************************************)
(* Bounds of the model.                                                    *)
(***************************************************************************)
MaxTicks == 1
MaxNonces == 2
MaxVerify == 2
MaxValidate == 1
MaxLogins == 1
MaxOwnerRequests == 3
MaxRaceRequests == 4
MaxVotes == 3
MaxPollRequests == 2
MaxTallyPolls == 1
MaxTallyVotes == 2
MaxTts == 1
MaxBalanceCalls == 3
MaxClaimRequests == 1
MaxSockets == 2
MaxBroadcasts == 1
MaxPings == 1
MaxHubVotes == 2
MaxTextLen == 5
MaxConfiguredLength == 4

(***************************************************************************)
(* Program constants.                                                      *)
(***************************************************************************)
\* Time is counted in seconds (Date.now() / 1000): every duration of the
\* program is a whole number of seconds, and a week of milliseconds added to
\* a later clock value does not fit the integers of the model checker.
NONCE_TTL_SEC == 5 * 60
LAST_SEEN_UPDATE_SEC == 5 * 60
SESSION_EXPIRY_HOURS == 168
SESSION_EXPIRY_SEC == SESSION_EXPIRY_HOURS * 60 * 60
TOKEN_BALANCE_CACHE_SECONDS == 15

Wallets == {"w1", "w2"}

VARIABLES
    \* ---- authenticator (services/session.ts, routes/auth.ts) ----
    now,          \* Date.now(), in seconds
    ticks,        \* number of clock advances so far (bounds the clock)
    nonceStore,   \* the Map walletPubkey -> { message, issuedAtMs }
    issued,       \* the challenge messages returned by GET /nonce, in order
    users,        \* table User
    sessions,     \* table Session
    nextToken,    \* source of fresh session tokens (randomBytes(32))
    vreq,         \* POST /verify requests, one per slot
    sreq,         \* validateSession calls, one per slot
    sweepCount,   \* the count returned by the last cleanupExpiredSessions
    verifyReply,  \* the reply of the last POST /verify that ended before awaiting
    \* ---- launch state machine (routes/drops.ts) ----
    drop,         \* the Drop record
    oreq,         \* the owner's requests that passed their guards, one per slot
    launchReply,  \* the reply of the last request refused by its guards
    nextMint,     \* source of the token mints the launch service creates
    published,    \* the events handed to broadcastToOverlay, in order
    \* ---- action ledger (routes/viewer.ts) ----
    polls,        \* table Poll of the Drop
    actions,      \* table Action of the Drop, in order of insertion
    vote,         \* POST /:slug/vote requests that passed their guards, one per slot
    \* ---- polls of the Drop (routes/drops.ts) and state fetches ----
    nextPoll,     \* source of the ids of new Poll rows
    preq,         \* POST /:slug/polls requests that passed their checks, one per slot
    fetching,     \* the state fetch in progress (GET viewer/:slug, GET overlay/:slug)
    fetched,      \* the poll of the last state fetch answered
    \* ---- TTS messages (routes/viewer.ts) ----
    tts,          \* POST /:slug/tts requests that passed their checks, one per slot
    sanitized,    \* a call of sanitizeTtsMessage on a text of characters
    \* ---- token balances (services/solana.ts) ----
    balanceCache,    \* the Map `${wallet}:${mint}` -> { balance, timestamp }
    breq,            \* checkHolderThreshold calls awaiting the RPC node, one per slot
    upstreamQueries, \* number of getParsedTokenAccountsByOwner calls issued
    balanceReply,    \* what the last checkHolderThreshold call returned
    \* ---- poll closing and claims (routes/drops.ts) ----
    claims,       \* table Claim of the Drop, in order of insertion
    creq,         \* DELETE polls/:pollId and POST confirm-claim requests, one per slot
    \* ---- overlay hub (websocket/overlay.ts) ----
    overlayClients, \* the Map slug -> Set<WebSocket>
    readyState,     \* readyState of each socket ("NONE": not connected yet)
    slugOf,         \* the slug each socket connected with
    received,       \* the messages sent to each socket, in order
    broadcasts,     \* the calls of broadcastToOverlay, in order
    pings,          \* number of PING messages received so far
    errorLog        \* the sockets whose error handler has logged, in order

authVars == <<now, ticks, nonceStore, issued, users, sessions, nextToken,
              vreq, sreq, sweepCount, verifyReply>>

launchVars == <<drop, oreq, launchReply, nextMint, published>>

voteVars == <<polls, actions, vote>>

pollVars == <<nextPoll, preq, fetching, fetched>>

ttsVars == <<tts, sanitized>>

balanceVars == <<balanceCache, breq, upstreamQueries, balanceReply>>

claimVars == <<claims, creq>>

hubVars == <<overlayClients, readyState, slugOf, received, broadcasts, pings, errorLog>>

vars == <<now, ticks, nonceStore, issued, users, sessions, nextToken,
          vreq, sreq, sweepCount, verifyReply,
          drop, oreq, launchReply, nextMint, published,
          polls, actions, vote,
          nextPoll, preq, fetching, fetched,
          tts, sanitized,
          balanceCache, breq, upstreamQueries, balanceReply,
          claims, creq,
          overlayClients, readyState, slugOf, received, broadcasts, pings, errorLog>>

----------------------------------------------------------------------------
(***************************************************************************)
(* JavaScript Map operations on a function with a finite domain.           *)
(***************************************************************************)
MapSet(m, k, v) == [x \in (DOMAIN m) \cup {k} |-> IF x = k THEN v ELSE m[x]]

MapDelete(m, k) == [x \in (DOMAIN m) \ {k} |-> m[x]]

EmptyMap == [x \in {} |-> 0]

----------------------------------------------------------------------------
(***************************************************************************)
(* Challenge/Session Authenticator                                         *)
(***************************************************************************)

\* The message of generateNonceMessage: the fixed header lines, the wallet,
\* the timestamp and 16 random bytes.  The random bytes are modelled as a
\* value never drawn before (rnd).
generateNonceMessage(walletPubkey, timestamp, rnd) ==
    [wallet |-> walletPubkey, timestamp |-> timestamp, nonce |-> rnd]

\* A message that no GET /nonce ever returned.
BogusMessage == [wallet |-> "w1", timestamp |-> 0, nonce |-> 0]

\* The null of consumeNonce.
NullMessage == [wallet |-> "", timestamp |-> -1, nonce |-> -1]

\* SHA-256 of a token, as an injective tagging of the token.
hashSessionToken(token) == <<"sha256", token>>

\* storeNonce: sweep the entries older than the TTL, then set the wallet's
\* entry (the newest overwrites the old one).
storeNonceKeepOld(store, walletPubkey, message, t) ==
    LET cutoff == t - NONCE_TTL_SEC
        kept == {k \in DOMAIN store : ~(store[k].issuedAtMs < cutoff)}
        swept == [k \in kept |-> store[k]]
    IN  IF walletPubkey \in kept THEN swept
        ELSE MapSet(swept, walletPubkey, [message |-> message, issuedAtMs |-> t])

storeNonce(store, walletPubkey, message, t) ==
    LET cutoff == t - NONCE_TTL_SEC
        kept == {k \in DOMAIN store : ~(store[k].issuedAtMs < cutoff)}
        swept == [k \in kept |-> store[k]]
    IN  MapSet(swept, walletPubkey, [message |-> message, issuedAtMs |-> t])

\* consumeNonce, the returned value.
consumeNonceResult(store, walletPubkey, t) ==
    IF walletPubkey \notin DOMAIN store THEN NullMessage
    ELSE IF t - store[walletPubkey].issuedAtMs > NONCE_TTL_SEC THEN NullMessage
    ELSE store[walletPubkey].message

\* consumeNonce, the store it leaves.
consumeNonceStoreKeep(store, walletPubkey) == store

consumeNonceStore(store, walletPubkey) ==
    IF walletPubkey \notin DOMAIN store THEN store
    ELSE MapDelete(store, walletPubkey)

\* Signatures a client can present: a string that is not base58, a base58
\* string that does not decode to 64 bytes, and an Ed25519 signature made
\* with the key of `signer` over the message `msg`.
Signatures(msgs) ==
    {[kind |-> "undecodable", signer |-> "", msg |-> NullMessage],
     [kind |-> "badlength", signer |-> "", msg |-> NullMessage]}
    \cup [kind : {"ed25519"}, signer : Wallets, msg : msgs]

\* The signature an honest holder of the wallet's key makes over a message.
SignatureOf(walletPubkey, message) ==
    [kind |-> "ed25519", signer |-> walletPubkey, msg |-> message]

\* isValidSignature of utils/validation: bs58.decode succeeds and yields
\* 64 bytes.
isValidSignature(sig) == sig.kind = "ed25519"

\* authVerifySchema: walletPubkey is a public key (all of Wallets are),
\* signature passes isValidSignature, message is a non-empty string.
authVerifySchema(walletPubkey, sig, message) ==
    /\ walletPubkey \in Wallets
    /\ isValidSignature(sig)
    /\ message # NullMessage

\* nacl.sign.detached.verify(message, signature, publicKey).
naclVerify(message, sig, walletPubkey) ==
    /\ sig.kind = "ed25519"
    /\ sig.signer = walletPubkey
    /\ sig.msg = message

\* The comparison of the stored nonce with the presented message.
nonceMatchesAny(storedMessage, message) == storedMessage # NullMessage

nonceMatches(storedMessage, message) ==
    ~(storedMessage = NullMessage \/ storedMessage # message)

\* The synchronous part of POST /verify, up to its first await: the outcome.
verifyOutcome(store, walletPubkey, sig, message, t) ==
    IF ~authVerifySchema(walletPubkey, sig, message) THEN "InvalidRequestBody"
    ELSE IF ~nonceMatches(consumeNonceResult(store, walletPubkey, t), message)
         THEN "NonceExpiredOrMissing"
    ELSE IF sig.kind = "undecodable" THEN "InvalidSignatureEncoding"
    ELSE IF sig.kind = "badlength" THEN "InvalidSignatureLength"
    ELSE IF ~naclVerify(message, sig, walletPubkey)
         THEN "SignatureVerificationFailed"
    ELSE "verified"

\* The synchronous part of POST /verify: the nonce store it leaves.
verifyStore(store, walletPubkey, sig, message) ==
    IF ~authVerifySchema(walletPubkey, sig, message) THEN store
    ELSE consumeNonceStore(store, walletPubkey)

VSlots == 1..MaxVerify
SSlots == 1..MaxValidate

IdleV == [pc |-> "idle", wallet |-> "",
          sig |-> [kind |-> "undecodable", signer |-> "", msg |-> NullMessage],
          message |-> NullMessage, userId |-> 0, token |-> 0, result |-> ""]

NullSession == [id |-> 0, cookieTokenHash |-> <<"sha256", 0>>, userId |-> 0,
                expiresAt |-> 0, lastSeenAt |-> 0]

NullUser == [userId |-> 0, walletPubkey |-> ""]

IdleS == [pc |-> "idle", token |-> 0, session |-> NullSession, nowRead |-> 0,
          result |-> NullUser]

\* Tokens a client can present: the ones minted so far and one that never
\* existed (0).
Tokens == 0..(nextToken - 1)

Messages == {issued[i] : i \in 1..Len(issued)} \cup {BogusMessage}

UserOf(walletPubkey) == {u \in users : u.walletPubkey = walletPubkey}

UserById(id) == CHOOSE u \in users : u.id = id

SessionsByHash(h) == {s \in sessions : s.cookieTokenHash = h}

InitAuth ==
    /\ now = 0
    /\ ticks = 0
    /\ nonceStore = EmptyMap
    /\ issued = <<>>
    /\ users = {}
    /\ sessions = {}
    /\ nextToken = 1
    /\ vreq = [r \in VSlots |-> IdleV]
    /\ sreq = [r \in SSlots |-> IdleS]
    /\ sweepCount = 0
    /\ verifyReply = [wallet |-> "", sig |-> IdleV.sig, message |-> NullMessage,
                      result |-> ""]

\* Time passes.
Tick(d) ==
    /\ ticks < MaxTicks
    /\ now' = now + d
    /\ ticks' = ticks + 1
    /\ UNCHANGED <<nonceStore, issued, users, sessions, nextToken, vreq, sreq,
                   sweepCount, verifyReply>>

\* GET /api/auth/nonce
IssueChallenge(w) ==
    /\ Len(issued) < MaxNonces
    /\ LET message == generateNonceMessage(w, now, Len(issued) + 1)
       IN  /\ nonceStore' = storeNonce(nonceStore, w, message, now)
           /\ issued' = Append(issued, message)
    /\ UNCHANGED <<now, ticks, users, sessions, nextToken, vreq, sreq,
                   sweepCount, verifyReply>>

\* POST /api/auth/verify, from the schema parse to the first await.  A
\* request that fails here has replied (verifyReply) without ever awaiting;
\* one that passes continues in slot r with the find-or-create of the user.
Verify(r, w, sig, m) ==
    /\ vreq[r].pc = "idle"
    /\ \A q \in VSlots : q < r => vreq[q].pc # "idle"
    /\ LET outcome == verifyOutcome(nonceStore, w, sig, m, now)
       IN  /\ verifyReply' = [wallet |-> w, sig |-> sig, message |-> m,
                               result |-> outcome]
           /\ vreq' = IF outcome = "verified"
                      THEN [vreq EXCEPT ![r] =
                              [@ EXCEPT !.wallet = w, !.sig = sig, !.message = m,
                                        !.pc = "findUser"]]
                      ELSE vreq
    /\ nonceStore' = verifyStore(nonceStore, w, sig, m)
    /\ UNCHANGED <<now, ticks, issued, users, sessions, nextToken, sreq,
                   sweepCount>>

\* prisma.user.findUnique({ where: { walletPubkey } })
VerifyFindUser(r) ==
    /\ vreq[r].pc = "findUser"
    /\ LET found == UserOf(vreq[r].wallet)
       IN  vreq' = [vreq EXCEPT ![r] =
                IF found = {} THEN [@ EXCEPT !.pc = "createUser"]
                ELSE [@ EXCEPT !.pc = "createSession",
                               !.userId = (CHOOSE u \in found : TRUE).id]]
    /\ UNCHANGED <<now, ticks, nonceStore, issued, users, sessions, nextToken,
                   sreq, sweepCount, verifyReply>>

\* prisma.user.create({ data: { walletPubkey } }); walletPubkey is a unique
\* column (it is the key of findUnique), so a second create for the wallet
\* throws and the request ends with an internal error.
VerifyCreateUser(r) ==
    /\ vreq[r].pc = "createUser"
    /\ IF UserOf(vreq[r].wallet) # {}
       THEN /\ vreq' = [vreq EXCEPT ![r] =
                    [@ EXCEPT !.pc = "done", !.result = "InternalError"]]
            /\ users' = users
       ELSE LET id == Cardinality(users) + 1
            IN  /\ users' = users \cup {[id |-> id, walletPubkey |-> vreq[r].wallet]}
                /\ vreq' = [vreq EXCEPT ![r] =
                        [@ EXCEPT !.pc = "createSession", !.userId = id]]
    /\ UNCHANGED <<now, ticks, nonceStore, issued, sessions, nextToken, sreq,
                   sweepCount, verifyReply>>

\* createSession(user.id): a fresh token, stored by its hash.
createSession(userId, token, t) ==
    [id |-> token, cookieTokenHash |-> hashSessionToken(token),
     userId |-> userId, expiresAt |-> t + SESSION_EXPIRY_SEC, lastSeenAt |-> t]

VerifyCreateSession(r) ==
    /\ vreq[r].pc = "createSession"
    /\ sessions' = sessions \cup {createSession(vreq[r].userId, nextToken, now)}
    /\ nextToken' = nextToken + 1
    /\ vreq' = [vreq EXCEPT ![r] =
            [@ EXCEPT !.pc = "done", !.token = nextToken, !.result = "ok"]]
    /\ UNCHANGED <<now, ticks, nonceStore, issued, users, sreq, sweepCount, verifyReply>>

\* validateSession: the expiry test on the record read.
isExpiredNever(session, t) == FALSE

isExpired(session, t) == session.expiresAt < t

\* validateSession: the throttle of the lastSeenAt update.
needsLastSeenUpdate(session, t) == session.lastSeenAt < t - LAST_SEEN_UPDATE_SEC

UserContext(session) ==
    [userId |-> session.userId, walletPubkey |-> UserById(session.userId).walletPubkey]

\* validateSession(token): prisma.session.findUnique by the token's hash.
ValidateFind(r, token) ==
    /\ sreq[r].pc = "idle"
    /\ \A q \in SSlots : q < r => sreq[q].pc # "idle"
    /\ LET found == SessionsByHash(hashSessionToken(token))
       IN  sreq' = [sreq EXCEPT ![r] =
                IF found = {}
                THEN [@ EXCEPT !.token = token, !.pc = "done", !.result = NullUser]
                ELSE [@ EXCEPT !.token = token, !.pc = "check",
                               !.session = CHOOSE s \in found : TRUE]]
    /\ UNCHANGED <<now, ticks, nonceStore, issued, users, sessions, nextToken,
                   vreq, sweepCount, verifyReply>>

\* validateSession: the code between the findUnique and the next await.
ValidateCheck(r) ==
    /\ sreq[r].pc = "check"
    /\ sreq' = [sreq EXCEPT ![r] =
            IF isExpired(sreq[r].session, now)
            THEN [@ EXCEPT !.nowRead = now, !.pc = "delete"]
            ELSE IF needsLastSeenUpdate(sreq[r].session, now)
            THEN [@ EXCEPT !.nowRead = now, !.pc = "update"]
            ELSE [@ EXCEPT !.nowRead = now, !.pc = "done",
                           !.result = UserContext(sreq[r].session)]]
    /\ UNCHANGED <<now, ticks, nonceStore, issued, users, sessions, nextToken,
                   vreq, sweepCount, verifyReply>>

\* validateSession: prisma.session.delete({ where: { id } }).catch(() => {})
ValidateDelete(r) ==
    /\ sreq[r].pc = "delete"
    /\ sessions' = {s \in sessions : s.id # sreq[r].session.id}
    /\ sreq' = [sreq EXCEPT ![r] = [@ EXCEPT !.pc = "done", !.result = NullUser]]
    /\ UNCHANGED <<now, ticks, nonceStore, issued, users, nextToken, vreq,
                   sweepCount, verifyReply>>

\* validateSession: prisma.session.update({ lastSeenAt }).catch(() => {})
ValidateUpdate(r) ==
    /\ sreq[r].pc = "update"
    /\ sessions' = {IF s.id = sreq[r].session.id
                    THEN [s EXCEPT !.lastSeenAt = sreq[r].nowRead] ELSE s
                    : s \in sessions}
    /\ sreq' = [sreq EXCEPT ![r] =
            [@ EXCEPT !.pc = "done", !.result = UserContext(sreq[r].session)]]
    /\ UNCHANGED <<now, ticks, nonceStore, issued, users, nextToken, vreq,
                   sweepCount, verifyReply>>

\* deleteSession(token): deleteMany by the token's hash.
deleteSessionNone(ss, token) == ss

deleteSession(ss, token) ==
    {s \in ss : s.cookieTokenHash # hashSessionToken(token)}

\* POST /api/auth/logout with the cookie `token`.
Logout(token) ==
    /\ sessions' = deleteSession(sessions, token)
    /\ UNCHANGED <<now, ticks, nonceStore, issued, users, nextToken, vreq, sreq,
                   sweepCount, verifyReply>>

\* cleanupExpiredSessions(): deleteMany where expiresAt < now; the count.
cleanupExpiredSessions(ss, t) == {s \in ss : ~(s.expiresAt < t)}

SweepExpired ==
    /\ sessions' = cleanupExpiredSessions(sessions, now)
    /\ sweepCount' = Cardinality(sessions) - Cardinality(sessions')
    /\ UNCHANGED <<now, ticks, nonceStore, issued, users, nextToken, vreq, sreq, verifyReply>>

----------------------------------------------------------------------------
(***************************************************************************)
(* Launch State Machine (routes/drops.ts), for one Drop                    *)
(***************************************************************************)

Statuses == <<"DRAFT", "TOKEN_INFO_CREATED", "CONFIG_CREATED", "LAUNCHED">>

\* The position of a status in the forward order.
StatusRank(st) == CHOOSE i \in 1..Len(Statuses) : Statuses[i] = st

\* The authenticated callers: the Drop's owner and another user.
Callers == {"owner", "other"}

\* The request bodies of the confirm steps; "" is a missing field.
ConfigKeys == {"", "ck1", "ck2"}
LaunchSigs == {"", "sig1", "sig2"}

\* The slots of the owner's requests, and those the requests of the launch
\* scenarios use.
OSlots == 1..MaxRaceRequests
LaunchSlots == 1..MaxOwnerRequests

\* The Drop as POST /api/drops creates it (no mint, no artifacts).
\* holderThresholdRaw is the creator's string of digits, kept as the number
\* BigInt reads from it.
NewDrop == [ownerUserId |-> "owner", status |-> "DRAFT", tokenMint |-> 0,
            tokenMetadataUrl |-> 0, configKey |-> "", launchSig |-> "",
            holderThresholdRaw |-> 1, streamerBps |-> 5000, prizePoolBps |-> 5000]

\* minted is what the launch service returned to the request (0: nothing yet).
IdleO == [pc |-> "idle", op |-> "", caller |-> "", arg |-> "", snap |-> NewDrop,
          result |-> "", minted |-> 0]

InitLaunch ==
    /\ drop = NewDrop
    /\ oreq = [r \in OSlots |-> IdleO]
    /\ launchReply = [op |-> "", caller |-> "", arg |-> "", status |-> "", result |-> ""]
    /\ nextMint = 1
    /\ published = <<>>

\* The slug before POST /api/drops created its Drop: findFirst finds nothing.
NoDrop == [NewDrop EXCEPT !.ownerUserId = "", !.status = ""]

InitNoDrop ==
    /\ drop = NoDrop
    /\ oreq = [r \in OSlots |-> IdleO]
    /\ launchReply = [op |-> "", caller |-> "", arg |-> "", status |-> "", result |-> ""]
    /\ nextMint = 1
    /\ published = <<>>

\* The basis points of the requests: below the range, its ends, its middle
\* and above it.
BpsInputs == {-1, 0, 5000, 10000, 10001}

\* The schema without its refinement: each part within its range.
createDropSchemaRangesOnly(streamerBps, prizePoolBps) ==
    /\ streamerBps \in 0..10000
    /\ prizePoolBps \in 0..10000

\* createDropSchema on the fee split: two integers of 0..10000 each, refined
\* by streamerBps + prizePoolBps === 10000.
createDropSchema(streamerBps, prizePoolBps) ==
    /\ streamerBps \in 0..10000
    /\ prizePoolBps \in 0..10000
    /\ streamerBps + prizePoolBps = 10000

\* POST /api/drops: a body the schema refuses is answered 400 and nothing is
\* written; otherwise prisma.drop.create persists the Drop, in status DRAFT,
\* owned by the caller, under a slug no Drop had before.
CreateDraft(caller, streamerBps, prizePoolBps) ==
    /\ launchReply' = [op |-> "create-draft", caller |-> caller,
                       arg |-> <<streamerBps, prizePoolBps>>, status |-> drop.status,
                       result |-> IF createDropSchema(streamerBps, prizePoolBps)
                                  THEN "pass" ELSE "InvalidInput"]
    /\ IF createDropSchema(streamerBps, prizePoolBps)
       THEN /\ drop = NoDrop
            /\ drop' = [NewDrop EXCEPT !.ownerUserId = caller,
                                       !.streamerBps = streamerBps,
                                       !.prizePoolBps = prizePoolBps]
       ELSE UNCHANGED drop
    /\ UNCHANGED <<oreq, nextMint, published>>

\* The status guard of create-token-info.
tokenInfoGuardLoose(d) == d.status \in {"DRAFT", "TOKEN_INFO_CREATED"}

\* A guard that refuses only the final status.
tokenInfoGuardNotLaunched(d) == d.status # "LAUNCHED"

tokenInfoGuard(d) == ~(d.status # "DRAFT")

\* The status guard of confirm-launch.
confirmLaunchGuard(d) == ~(d.status # "CONFIG_CREATED")

\* What a handler answers from the body checks, the findFirst by slug and
\* owner, and its guards on the record read; "pass" when it goes on.
guardOutcome(op, caller, arg, d) ==
    IF op = "confirm-fee-config" /\ arg = "" THEN "BadRequest"
    ELSE IF op = "confirm-launch" /\ arg = "" THEN "BadRequest"
    ELSE IF d.ownerUserId # caller THEN "NotFound"
    ELSE IF op = "create-token-info"
         THEN IF tokenInfoGuard(d) THEN "pass" ELSE "InvalidStateTransition"
    ELSE IF op = "create-fee-config"
         THEN IF d.status # "TOKEN_INFO_CREATED" THEN "InvalidStateTransition"
              ELSE IF d.tokenMint = 0 THEN "MissingArtifacts"
              ELSE "pass"
    ELSE IF op = "confirm-fee-config"
         THEN IF d.status # "TOKEN_INFO_CREATED" THEN "InvalidStateTransition"
              ELSE "pass"
    ELSE IF op = "create-launch-tx"
         THEN IF d.status # "CONFIG_CREATED" THEN "InvalidStateTransition"
              ELSE IF d.tokenMint = 0 \/ d.tokenMetadataUrl = 0 \/ d.configKey = ""
                   THEN "MissingArtifacts"
              ELSE "pass"
    ELSE IF confirmLaunchGuard(d) THEN "pass" ELSE "InvalidStateTransition"

\* Where a handler that passed its guards awaits next: the launch service,
\* or the update of the Drop.
nextAwait(op) ==
    IF op \in {"confirm-fee-config", "confirm-launch"} THEN "update" ELSE "await"

\* A request that goes on past its guards takes the first free slot; a
\* refused request needs none.
TakesSlot(r, outcome) ==
    IF outcome = "pass"
    THEN oreq[r].pc = "idle" /\ \A q \in OSlots : q < r => oreq[q].pc # "idle"
    ELSE r = 1

\* A request of an authenticated caller, up to the reply of its guards or to
\* its next await.
OwnerRequest(r, op, caller, arg) ==
    /\ LET outcome == guardOutcome(op, caller, arg, drop)
       IN  /\ TakesSlot(r, outcome)
           /\ launchReply' = [op |-> op, caller |-> caller, arg |-> arg,
                              status |-> drop.status, result |-> outcome]
           /\ oreq' = IF outcome = "pass"
                      THEN [oreq EXCEPT ![r] =
                              [@ EXCEPT !.pc = nextAwait(op), !.op = op,
                                        !.caller = caller, !.arg = arg,
                                        !.snap = drop]]
                      ELSE oreq
    /\ UNCHANGED <<drop, nextMint, published>>

\* POST /:slug/create-token-info
AdvanceToTokenInfo(r, caller) == OwnerRequest(r, "create-token-info", caller, "")

\* POST /:slug/create-fee-config
AdvanceToConfigPending(r, caller) == OwnerRequest(r, "create-fee-config", caller, "")

\* POST /:slug/confirm-fee-config
ConfirmConfig(r, caller, configKey) ==
    OwnerRequest(r, "confirm-fee-config", caller, configKey)

\* POST /:slug/create-launch-tx
PrepareLaunchTransaction(r, caller) == OwnerRequest(r, "create-launch-tx", caller, "")

\* POST /:slug/confirm-launch
ConfirmLaunch(r, caller, signature) ==
    OwnerRequest(r, "confirm-launch", caller, signature)

\* create-token-info: bags.createTokenInfoAndMetadata returned the mint and
\* the metadata reference; the handler awaits the update of the Drop.
TokenInfoReturned(r) ==
    /\ oreq[r].pc = "await"
    /\ oreq[r].op = "create-token-info"
    /\ nextMint' = nextMint + 1
    /\ oreq' = [oreq EXCEPT ![r] = [@ EXCEPT !.pc = "update", !.minted = nextMint]]
    /\ UNCHANGED <<drop, launchReply, published>>

\* The data of the update of create-token-info, written with the artifacts
\* but not the status.
tokenInfoUpdateArtifactsOnly(d, minted) ==
    [d EXCEPT !.tokenMint = minted, !.tokenMetadataUrl = minted]

\* The data of the update of create-token-info.
tokenInfoUpdate(d, minted) ==
    [d EXCEPT !.tokenMint = minted, !.tokenMetadataUrl = minted,
              !.status = "TOKEN_INFO_CREATED"]

\* create-token-info: prisma.drop.update({ tokenMint, tokenMetadataUrl, status })
\* and reply.
TokenInfoCreated(r) ==
    /\ oreq[r].pc = "update"
    /\ oreq[r].op = "create-token-info"
    /\ drop' = tokenInfoUpdate(drop, oreq[r].minted)
    /\ oreq' = [oreq EXCEPT ![r] = [@ EXCEPT !.pc = "done", !.result = "ok"]]
    /\ UNCHANGED <<launchReply, nextMint, published>>

\* A prepare step that marks the status when the transactions are returned.
TransactionsPreparedAdvancing(r) ==
    /\ oreq[r].pc = "await"
    /\ oreq[r].op \in {"create-fee-config", "create-launch-tx"}
    /\ oreq' = [oreq EXCEPT ![r] = [@ EXCEPT !.pc = "done", !.result = "ok"]]
    /\ drop' = [drop EXCEPT !.status = IF oreq[r].op = "create-fee-config"
                                       THEN "CONFIG_CREATED" ELSE "LAUNCHED"]
    /\ UNCHANGED <<launchReply, nextMint, published>>

\* create-fee-config, create-launch-tx: the launch service returned the
\* transactions; the handler replies with them.
TransactionsPrepared(r) ==
    /\ oreq[r].pc = "await"
    /\ oreq[r].op \in {"create-fee-config", "create-launch-tx"}
    /\ oreq' = [oreq EXCEPT ![r] = [@ EXCEPT !.pc = "done", !.result = "ok"]]
    /\ UNCHANGED <<drop, launchReply, nextMint, published>>

\* The call of the launch service failed or timed out: the catch block
\* replies with the error.
LaunchServiceFailed(r) ==
    /\ oreq[r].pc = "await"
    /\ oreq' = [oreq EXCEPT ![r] = [@ EXCEPT !.pc = "done", !.result = "UpstreamError"]]
    /\ UNCHANGED <<drop, launchReply, nextMint, published>>

\* confirm-fee-config: prisma.drop.update({ configKey, status }) and reply.
ConfigConfirmed(r) ==
    /\ oreq[r].pc = "update"
    /\ oreq[r].op = "confirm-fee-config"
    /\ drop' = [drop EXCEPT !.configKey = oreq[r].arg, !.status = "CONFIG_CREATED"]
    /\ oreq' = [oreq EXCEPT ![r] = [@ EXCEPT !.pc = "done", !.result = "ok"]]
    /\ UNCHANGED <<launchReply, nextMint, published>>

\* confirm-launch: prisma.drop.update({ launchSig, status }).
LaunchConfirmed(r) ==
    /\ oreq[r].pc = "update"
    /\ oreq[r].op = "confirm-launch"
    /\ drop' = [drop EXCEPT !.launchSig = oreq[r].arg, !.status = "LAUNCHED"]
    /\ oreq' = [oreq EXCEPT ![r] = [@ EXCEPT !.pc = "publish"]]
    /\ UNCHANGED <<launchReply, nextMint, published>>

\* confirm-launch: broadcastToOverlay(DROP_LAUNCHED) with the mint of the
\* record read and the signature, and reply.
LaunchPublished(r) ==
    /\ oreq[r].pc = "publish"
    /\ published' = Append(published,
            [type |-> "DROP_LAUNCHED",
             data |-> [tokenMint |-> oreq[r].snap.tokenMint,
                       launchSig |-> oreq[r].arg]])
    /\ oreq' = [oreq EXCEPT ![r] = [@ EXCEPT !.pc = "done", !.result = "ok"]]
    /\ UNCHANGED <<drop, launchReply, nextMint>>

\* The compiled build of the route (dist/routes): confirm-launch reads no
\* field of the body before the Drop and refuses no body.
confirmLaunchOutcomeDist(caller, d) ==
    IF d.ownerUserId # caller THEN "NotFound"
    ELSE IF d.status # "CONFIG_CREATED" THEN "InvalidStateTransition"
    ELSE "pass"

\* The compiled confirm-launch up to its update; "" is a body without a
\* signature.
ConfirmLaunchDist(r, caller, signature) ==
    /\ LET outcome == confirmLaunchOutcomeDist(caller, drop)
       IN  /\ TakesSlot(r, outcome)
           /\ launchReply' = [op |-> "confirm-launch-dist", caller |-> caller,
                              arg |-> signature, status |-> drop.status,
                              result |-> outcome]
           /\ oreq' = IF outcome = "pass"
                      THEN [oreq EXCEPT ![r] =
                              [@ EXCEPT !.pc = "update", !.op = "confirm-launch-dist",
                                        !.caller = caller, !.arg = signature,
                                        !.snap = drop]]
                      ELSE oreq
    /\ UNCHANGED <<drop, nextMint, published>>

\* The compiled confirm-launch: prisma.drop.update({ launchSig:
\* request.body.signature, status }) returns the record it wrote; a field
\* that is undefined is left as it was.
LaunchConfirmedDist(r) ==
    /\ oreq[r].pc = "update"
    /\ oreq[r].op = "confirm-launch-dist"
    /\ drop' = [drop EXCEPT !.launchSig = IF oreq[r].arg = "" THEN @ ELSE oreq[r].arg,
                            !.status = "LAUNCHED"]
    /\ oreq' = [oreq EXCEPT ![r] = [@ EXCEPT !.pc = "publish", !.snap = drop']]
    /\ UNCHANGED <<launchReply, nextMint, published>>

\* The compiled confirm-launch: broadcastToOverlay(DROP_LAUNCHED) with the
\* mint and the signature of the updated record, and the reply.
LaunchPublishedDist(r) ==
    /\ oreq[r].pc = "publish"
    /\ oreq[r].op = "confirm-launch-dist"
    /\ published' = Append(published,
            [type |-> "DROP_LAUNCHED",
             data |-> [tokenMint |-> oreq[r].snap.tokenMint,
                       launchSig |-> oreq[r].snap.launchSig]])
    /\ oreq' = [oreq EXCEPT ![r] = [@ EXCEPT !.pc = "done", !.result = "ok"]]
    /\ UNCHANGED <<drop, launchReply, nextMint>>

LaunchSteps ==
    \/ \E r \in LaunchSlots, caller \in Callers : AdvanceToTokenInfo(r, caller)
    \/ \E r \in LaunchSlots, caller \in Callers : AdvanceToConfigPending(r, caller)
    \/ \E r \in LaunchSlots, caller \in Callers, k \in ConfigKeys : ConfirmConfig(r, caller, k)
    \/ \E r \in LaunchSlots, caller \in Callers : PrepareLaunchTransaction(r, caller)
    \/ \E r \in LaunchSlots, caller \in Callers, g \in LaunchSigs : ConfirmLaunch(r, caller, g)
    \/ \E r \in OSlots : TokenInfoReturned(r)
    \/ \E r \in OSlots : TokenInfoCreated(r)
    \/ \E r \in OSlots : TransactionsPrepared(r)
    \/ \E r \in OSlots : LaunchServiceFailed(r)
    \/ \E r \in OSlots : ConfigConfirmed(r)
    \/ \E r \in OSlots : LaunchConfirmed(r)
    \/ \E r \in OSlots : LaunchPublished(r)

----------------------------------------------------------------------------
(***************************************************************************)
(* Action Ledger: POST /api/viewer/:slug/vote (routes/viewer.ts)           *)
(***************************************************************************)

ViewerOrder == <<"v1", "v2", "v3">>

Viewers == {ViewerOrder[i] : i \in 1..Len(ViewerOrder)}

\* The bodies of the requests: "" is a wallet that is no public key and a
\* missing pollId, -1 an option below the range and 3 one above it.
WalletInputs == Viewers \cup {""}
PollIdInputs == {"", "p1", "p2"}
OptionInputs == -1..3

\* The token holdings the RPC node may report for a wallet.
Balances == 0..1

VoteSlots == 1..MaxVotes

\* new PublicKey(address) succeeds on the base58 text of 32 bytes.
isValidPublicKey(address) == address \in Viewers \cup Wallets

\* z.object({ pollId: z.string().min(1), optionIndex: z.number().int().min(0) })
voteActionSchema(pollId, optionIndex) == pollId # "" /\ optionIndex >= 0

\* JSON.stringify({ pollId, optionIndex }): the text is kept as its tokens,
\* keys and values in the order of the object literal, the number in digits.
stringifyVote(pollId, optionIndex) ==
    <<"pollId", pollId, "optionIndex", ToString(optionIndex)>>

\* The number a text of digits denotes.
parseNumber(text) == CHOOSE n \in OptionInputs : ToString(n) = text

\* JSON.parse of a payload text.
parseVote(text) == [pollId |-> text[2], optionIndex |-> parseNumber(text[4])]

\* Prisma's `contains` filter: the needle occurs in the text.
contains(text, needle) == \E i \in 1..Len(text) : text[i] = needle

\* The polls of `include: { polls: { where: { id, isActive: true }, take: 1 } }`.
activePolls(ps, pollId) == {p \in ps : p.id = pollId /\ p.isActive}

\* The checks of the handler up to its call of checkHolderThreshold, in the
\* order of the code.
voteGuardOutcome(w, pollId, optionIndex, d, ps) ==
    IF ~isValidPublicKey(w) THEN "InvalidWalletAddress"
    ELSE IF ~voteActionSchema(pollId, optionIndex) THEN "InvalidVote"
    ELSE IF d.status # "LAUNCHED" \/ d.tokenMint = 0 THEN "DropNotLaunched"
    ELSE IF activePolls(ps, pollId) = {} THEN "PollNotFound"
    ELSE IF \A p \in activePolls(ps, pollId) :
               optionIndex < 0 \/ optionIndex >= Len(p.options)
         THEN "InvalidOption"
    ELSE "pass"

\* checkHolderThreshold: balance >= BigInt(thresholdRaw).
checkHolderThresholdOpen(balance, thresholdRaw) == TRUE

checkHolderThresholdStrict(balance, thresholdRaw) == balance > thresholdRaw

checkHolderThreshold(balance, thresholdRaw) == balance >= thresholdRaw

\* A search that looks at the newest row of the ledger only.
existingVoteLastRow(ledger, w, pollId) ==
    \E i \in {Len(ledger)} \ {0} :
        /\ ledger[i].viewerWallet = w
        /\ ledger[i].type = "VOTE"
        /\ contains(ledger[i].payloadJson, pollId)

\* prisma.action.findFirst({ where: { dropId, viewerWallet, type: 'VOTE',
\* payloadJson: { contains: pollId } } }) finds a row.
existingVote(ledger, w, pollId) ==
    \E i \in 1..Len(ledger) :
        /\ ledger[i].viewerWallet = w
        /\ ledger[i].type = "VOTE"
        /\ contains(ledger[i].payloadJson, pollId)

\* prisma.action.groupBy({ by: ['payloadJson'], where: { dropId, type: 'VOTE' },
\* _count: true }): one row per distinct payload text.
groupByPayload(ledger) ==
    {[payloadJson |-> t,
      count |-> Cardinality({i \in 1..Len(ledger) :
                                ledger[i].type = "VOTE" /\ ledger[i].payloadJson = t})] :
        t \in {ledger[i].payloadJson : i \in {j \in 1..Len(ledger) : ledger[j].type = "VOTE"}}}

\* The rows of a groupBy that the loop assigns to index k of voteCounts.
rowsFor(votes, pollId, nOptions, k) ==
    {g \in votes : /\ parseVote(g.payloadJson).pollId = pollId
                   /\ parseVote(g.payloadJson).optionIndex >= 0
                   /\ parseVote(g.payloadJson).optionIndex < nOptions
                   /\ parseVote(g.payloadJson).optionIndex = k}

\* new Array(options.length).fill(0), then voteCounts[optionIndex] = _count
\* for every row of the poll.  Payload texts are distinct per row and
\* stringifyVote is one-to-one, so at most one row is assigned to an index.
voteCountsPresence(votes, pollId, nOptions) ==
    [k \in 0..(nOptions - 1) |->
        IF rowsFor(votes, pollId, nOptions, k) = {} THEN 0 ELSE 1]

voteCountsOf(votes, pollId, nOptions) ==
    [k \in 0..(nOptions - 1) |->
        IF rowsFor(votes, pollId, nOptions, k) = {} THEN 0
        ELSE (CHOOSE g \in rowsFor(votes, pollId, nOptions, k) : TRUE).count]

\* snap is the Drop as the handler read it, balance the balance that
\* checkHolderThreshold compared with its threshold.
IdleVote == [pc |-> "idle", viewerWallet |-> "", pollId |-> "", optionIndex |-> 0,
             nOptions |-> 0, votes |-> {}, snap |-> NewDrop, balance |-> 0]

\* The Drop after confirm-launch.
LaunchedDrop == [NewDrop EXCEPT !.status = "LAUNCHED", !.tokenMint = 1,
                                !.tokenMetadataUrl = 1, !.configKey = "ck1",
                                !.launchSig = "sig1"]

InitLaunched ==
    /\ drop = LaunchedDrop
    /\ oreq = [r \in OSlots |-> IdleO]
    /\ launchReply = [op |-> "", caller |-> "", arg |-> "", status |-> "", result |-> ""]
    /\ nextMint = 2
    /\ published = <<>>

\* The polls of the Drop: creating "p2" deactivated nothing, creating "p1"
\* after it deactivated "p2".
InitVote ==
    /\ polls = {[id |-> "p2", options |-> <<"yes", "no">>, isActive |-> FALSE],
                [id |-> "p1", options |-> <<"a", "b", "c">>, isActive |-> TRUE]}
    /\ actions = <<>>
    /\ vote = [r \in VoteSlots |-> IdleVote]

\* The request arrives: both schemas are applied, the Drop and the poll are
\* read and checked and checkHolderThreshold is awaited; a request that fails
\* a check ends with its error and changes nothing, one that passes awaits
\* the search for an earlier vote.  The balance is the answer of the RPC
\* node, which depends on nothing a handler changes, so the wait for it is
\* no step of its own.
VoteRequest(r, w, pollId, optionIndex, balance) ==
    /\ vote[r].pc = "idle"
    /\ \A q \in VoteSlots : q < r => vote[q].pc # "idle"
    /\ IF /\ voteGuardOutcome(w, pollId, optionIndex, drop, polls) = "pass"
          /\ checkHolderThreshold(balance, drop.holderThresholdRaw)
       THEN vote' = [vote EXCEPT ![r] =
                [IdleVote EXCEPT !.pc = "lookup", !.viewerWallet = w,
                    !.pollId = pollId, !.optionIndex = optionIndex,
                    !.nOptions = Len((CHOOSE p \in activePolls(polls, pollId) : TRUE).options),
                    !.snap = drop, !.balance = balance]]
       ELSE UNCHANGED vote
    /\ UNCHANGED <<drop, published, polls, actions>>

\* findFirst returns: with an earlier vote the request ends with 400
\* ("You have already voted on this poll"), otherwise the handler awaits the
\* insertion.
VoteLookup(r) ==
    /\ vote[r].pc = "lookup"
    /\ IF existingVote(actions, vote[r].viewerWallet, vote[r].pollId)
       THEN vote' = [vote EXCEPT ![r] = [IdleVote EXCEPT !.pc = "duplicate"]]
       ELSE vote' = [vote EXCEPT ![r].pc = "insert"]
    /\ UNCHANGED <<drop, published, polls, actions>>

\* prisma.action.create inserts the vote; the handler awaits the groupBy.
VoteInsert(r) ==
    /\ vote[r].pc = "insert"
    /\ actions' = Append(actions,
                     [viewerWallet |-> vote[r].viewerWallet, type |-> "VOTE",
                      payloadJson |-> stringifyVote(vote[r].pollId, vote[r].optionIndex)])
    /\ vote' = [vote EXCEPT ![r].pc = "tally"]
    /\ UNCHANGED <<drop, published, polls>>

\* groupBy reads the ledger; the handler awaits its rows.
VoteTally(r) ==
    /\ vote[r].pc = "tally"
    /\ vote' = [vote EXCEPT ![r].pc = "publish",
                            ![r].votes = groupByPayload(actions)]
    /\ UNCHANGED <<drop, published, polls, actions>>

\* The rows arrive: the counts are computed from them, published and
\* returned, and the request is over.
VotePublish(r) ==
    /\ vote[r].pc = "publish"
    /\ published' = Append(published,
           [type |-> "VOTE",
            data |-> [pollId |-> vote[r].pollId,
                      optionIndex |-> vote[r].optionIndex,
                      voteCounts |-> voteCountsOf(vote[r].votes, vote[r].pollId,
                                                  vote[r].nOptions)]])
    /\ vote' = [vote EXCEPT ![r] = [IdleVote EXCEPT !.pc = "done"]]
    /\ UNCHANGED <<drop, polls, actions>>

----------------------------------------------------------------------------
(***************************************************************************)
(* Polls of the Drop (routes/drops.ts) and the state fetches of the viewer *)
(* page and the overlay (routes/viewer.ts, routes/overlay.ts)              *)
(***************************************************************************)

PollSlots == 1..MaxPollRequests

\* The bodies of POST /:slug/polls: "" is a missing question, a list of one
\* option is too short.
Questions == {"", "q"}
OptionLists == {<<"x">>, <<"x", "y">>}

\* The id of the n-th Poll row.
PollId(n) == "p" \o ToString(n)

\* createPollSchema: question of 1..200 characters, 2..6 options.
createPollSchema(question, options) ==
    question # "" /\ Len(options) >= 2 /\ Len(options) <= 6

\* The checks of POST /:slug/polls: the body, then the Drop by slug and owner.
pollGuardOutcome(caller, question, options, d) ==
    IF ~createPollSchema(question, options) THEN "BadRequest"
    ELSE IF d.ownerUserId # caller THEN "NotFound"
    ELSE "pass"

IdlePoll == [pc |-> "idle", question |-> "", options |-> <<>>, pollId |-> ""]

NoFetch == [pc |-> "idle", route |-> "", pollId |-> "", nOptions |-> 0]

InitPolls ==
    /\ nextPoll = 3
    /\ preq = [r \in PollSlots |-> IdlePoll]
    /\ fetching = NoFetch
    /\ fetched = [route |-> "", pollId |-> "", voteCounts |-> <<>>]

\* POST /:slug/polls arrives: the body is parsed and the Drop is read by slug
\* and owner; the handler then awaits the deactivation of the active polls.
CreatePoll(r, caller, question, options) ==
    /\ preq[r].pc = "idle"
    /\ \A q \in PollSlots : q < r => preq[q].pc # "idle"
    /\ LET outcome == pollGuardOutcome(caller, question, options, drop) IN
         /\ launchReply' = [op |-> "create-poll", caller |-> caller,
                            arg |-> <<question, options>>,
                            status |-> drop.status, result |-> outcome]
         /\ preq' = IF outcome = "pass"
                    THEN [preq EXCEPT ![r] = [IdlePoll EXCEPT !.pc = "deactivate",
                                                 !.question = question,
                                                 !.options = options]]
                    ELSE preq
    /\ UNCHANGED <<drop, oreq, nextMint, published, polls, actions, vote,
                   nextPoll, fetching, fetched>>

\* prisma.poll.updateMany({ where: { dropId, isActive: true }, data: { isActive: false } })
PollsDeactivated(r) ==
    /\ preq[r].pc = "deactivate"
    /\ polls' = {[p EXCEPT !.isActive = FALSE] : p \in polls}
    /\ preq' = [preq EXCEPT ![r].pc = "create"]
    /\ UNCHANGED <<drop, oreq, launchReply, nextMint, published, actions, vote,
                   nextPoll, fetching, fetched>>

\* prisma.poll.create({ data: { dropId, question, options, isActive: true } })
PollCreated(r) ==
    /\ preq[r].pc = "create"
    /\ polls' = polls \cup {[id |-> PollId(nextPoll), options |-> preq[r].options,
                             isActive |-> TRUE]}
    /\ nextPoll' = nextPoll + 1
    /\ preq' = [preq EXCEPT ![r].pc = "publish", ![r].pollId = PollId(nextPoll)]
    /\ UNCHANGED <<drop, oreq, launchReply, nextMint, published, actions, vote,
                   fetching, fetched>>

\* broadcastToOverlay(POLL_CREATED) and the reply.
PollPublished(r) ==
    /\ preq[r].pc = "publish"
    /\ published' = Append(published,
           [type |-> "POLL_CREATED",
            data |-> [pollId |-> preq[r].pollId, question |-> preq[r].question,
                      options |-> preq[r].options]])
    /\ preq' = [preq EXCEPT ![r].pc = "done"]
    /\ UNCHANGED <<drop, oreq, launchReply, nextMint, polls, actions, vote,
                   nextPoll, fetching, fetched>>

\* The rows of a groupBy that the loop of GET viewer/:slug assigns to index
\* k of voteCounts: the payload's pollId is not looked at.
rowsAt(votes, nOptions, k) ==
    {g \in votes : /\ parseVote(g.payloadJson).optionIndex >= 0
                   /\ parseVote(g.payloadJson).optionIndex < nOptions
                   /\ parseVote(g.payloadJson).optionIndex = k}

\* The vectors the loop of GET viewer/:slug may leave in voteCounts: the
\* count of the row assigned last to an index stays, and groupBy returns its
\* rows in no promised order.
viewerVoteCounts(votes, nOptions, maxCount) ==
    {c \in [0..(nOptions - 1) -> 0..maxCount] :
        \A k \in 0..(nOptions - 1) :
            IF rowsAt(votes, nOptions, k) = {} THEN c[k] = 0
            ELSE \E g \in rowsAt(votes, nOptions, k) : c[k] = g.count}

\* GET /api/viewer/:slug and GET /api/overlay/:slug arrive: the Drop is read
\* with one of its active polls; without one the reply has no poll, with one
\* the handler awaits the groupBy.
FetchState(route) ==
    /\ fetching.pc = "idle"
    /\ IF \E p \in polls : p.isActive
       THEN /\ \E p \in {q \in polls : q.isActive} :
                 fetching' = [pc |-> "tally", route |-> route, pollId |-> p.id,
                              nOptions |-> Len(p.options)]
            /\ UNCHANGED fetched
       ELSE /\ fetched' = [route |-> route, pollId |-> "", voteCounts |-> <<>>]
            /\ UNCHANGED fetching
    /\ UNCHANGED <<drop, oreq, launchReply, nextMint, published, polls, actions,
                   vote, nextPoll, preq>>

\* groupBy returns: the counts of the poll are computed and returned.
FetchTally ==
    /\ fetching.pc = "tally"
    /\ \E c \in IF fetching.route = "viewer"
                THEN viewerVoteCounts(groupByPayload(actions), fetching.nOptions,
                                      Len(actions))
                ELSE {voteCountsOf(groupByPayload(actions), fetching.pollId,
                                   fetching.nOptions)} :
          fetched' = [route |-> fetching.route, pollId |-> fetching.pollId,
                      voteCounts |-> c]
    /\ fetching' = NoFetch
    /\ UNCHANGED <<drop, oreq, launchReply, nextMint, published, polls, actions,
                   vote, nextPoll, preq>>

----------------------------------------------------------------------------
(***************************************************************************)
(* TTS messages: POST /api/viewer/:slug/tts (routes/viewer.ts,             *)
(* utils/sanitize.ts)                                                      *)
(***************************************************************************)

TtsSlots == 1..MaxTts

\* The message texts of the requests: an empty text, a blank, a plain word,
\* a word of the profanity list and a URL.
TtsMessages == {"", " ", "hi", "damn", "http://a.io", "http://a.io "}

PROFANITY_LIST == {"damn"}

\* ttsActionSchema: message of 1..200 characters.
ttsActionSchema(message) == message # ""

\* message.trim()
trim(message) ==
    IF message = " " THEN ""
    ELSE IF message = "http://a.io " THEN "http://a.io"
    ELSE message

\* cleaned.replace(URL_PATTERN, '[link removed]')
replaceUrls(text) == IF text = "http://a.io" THEN "[link removed]" ELSE text

\* A word of the profanity list becomes as many asterisks as it has letters.
filterProfanity(text) == IF text \in PROFANITY_LIST THEN "****" ELSE text

\* cleaned.replace(/[\s*\[\]]/g, ''): what is left of the text without
\* blanks, asterisks and brackets.
finalCheck(text) ==
    IF text \in {"", " ", "****"} THEN ""
    ELSE IF text = "[link removed]" THEN "linkremoved"
    ELSE text

\* sanitizeTtsMessage: the cleaned text, or "" for the null of a rejection.
sanitizeTtsMessage(message) ==
    IF trim(message) = "" THEN ""
    ELSE IF finalCheck(filterProfanity(replaceUrls(trim(message)))) = "" THEN ""
    ELSE filterProfanity(replaceUrls(trim(message)))

\* JSON.stringify({ message })
stringifyMessage(message) == <<"message", message>>

\* The checks of the handler up to its call of checkHolderThreshold.
ttsGuardOutcome(w, message, d) ==
    IF ~isValidPublicKey(w) THEN "InvalidWalletAddress"
    ELSE IF ~ttsActionSchema(message) THEN "InvalidMessage"
    ELSE IF d.status # "LAUNCHED" \/ d.tokenMint = 0 THEN "DropNotLaunched"
    ELSE "pass"

IdleTts == [pc |-> "idle", viewerWallet |-> "", body |-> "", message |-> "",
            snap |-> NewDrop, balance |-> 0]

\* A message as its characters, and the call of sanitizeTtsMessage on it.
NoSanitizeCall == [pc |-> "idle", message |-> <<>>, maxLength |-> 1,
                   rejected |-> FALSE, cleaned |-> <<>>]

InitTts ==
    /\ tts = [r \in TtsSlots |-> IdleTts]
    /\ sanitized = NoSanitizeCall

\* The request arrives: the schemas are applied, the Drop is read and
\* checked, checkHolderThreshold is awaited and the message is sanitized; a
\* request that fails ends with its error and changes nothing, one that
\* passes awaits the insertion.
TtsRequest(r, w, message, balance) ==
    /\ tts[r].pc = "idle"
    /\ \A q \in TtsSlots : q < r => tts[q].pc # "idle"
    /\ IF /\ ttsGuardOutcome(w, message, drop) = "pass"
          /\ checkHolderThreshold(balance, drop.holderThresholdRaw)
          /\ sanitizeTtsMessage(message) # ""
       THEN tts' = [tts EXCEPT ![r] =
                [pc |-> "insert", viewerWallet |-> w, body |-> message,
                 message |-> sanitizeTtsMessage(message),
                 snap |-> drop, balance |-> balance]]
       ELSE UNCHANGED tts
    /\ UNCHANGED <<drop, published, polls, actions>>

\* prisma.action.create inserts the message.
TtsInsert(r) ==
    /\ tts[r].pc = "insert"
    /\ actions' = Append(actions,
                     [viewerWallet |-> tts[r].viewerWallet, type |-> "TTS",
                      payloadJson |-> stringifyMessage(tts[r].message)])
    /\ tts' = [tts EXCEPT ![r].pc = "publish"]
    /\ UNCHANGED <<drop, published, polls>>

\* broadcastToOverlay(TTS) and the reply.
TtsPublish(r) ==
    /\ tts[r].pc = "publish"
    /\ published' = Append(published,
           [type |-> "TTS",
            data |-> [message |-> tts[r].message,
                      viewerWallet |-> tts[r].viewerWallet]])
    /\ tts' = [tts EXCEPT ![r].pc = "done"]
    /\ UNCHANGED <<drop, polls, actions>>

(***************************************************************************)
(* sanitizeTtsMessage on the characters of a message (utils/sanitize.ts).  *)
(* The texts are made of two letters and the blank: no URL, invite link,   *)
(* capital or word of the profanity list can be written with them, so the  *)
(* replacements of lines 41-42, 48-50 and 56-58 leave such a text as it    *)
(* is.                                                                     *)
(***************************************************************************)

Chars == {"a", "b", " "}

RECURSIVE TextsOfLen(_)
TextsOfLen(n) ==
    IF n = 0 THEN {<<>>}
    ELSE {Append(t, c) : t \in TextsOfLen(n - 1), c \in Chars}

Texts == UNION {TextsOfLen(n) : n \in 0..MaxTextLen}

ConfiguredLengths == 1..MaxConfiguredLength

\* String.prototype.trim
RECURSIVE trimStart(_)
trimStart(text) ==
    IF text # <<>> /\ Head(text) = " " THEN trimStart(Tail(text)) ELSE text

RECURSIVE trimEnd(_)
trimEnd(text) ==
    IF text # <<>> /\ text[Len(text)] = " "
    THEN trimEnd(SubSeq(text, 1, Len(text) - 1))
    ELSE text

trimText(text) == trimEnd(trimStart(text))

\* cleaned.replace(SPAM_PATTERN, '$1$1$1$1'): a run of five or more of one
\* character becomes four of it.
RECURSIVE replaceSpam(_)
replaceSpam(text) ==
    IF text = <<>> THEN <<>>
    ELSE IF Len(text) >= 5 /\ \A i \in 2..5 : text[i] = text[1]
         THEN replaceSpam(Tail(text))
    ELSE <<Head(text)>> \o replaceSpam(Tail(text))

\* cleaned.split(/\s+/) and filteredWords.join(' '): the words with one blank
\* between them.
RECURSIVE joinWords(_)
joinWords(text) ==
    IF text = <<>> THEN <<>>
    ELSE IF Len(text) >= 2 /\ text[1] = " " /\ text[2] = " "
         THEN joinWords(Tail(text))
    ELSE <<Head(text)>> \o joinWords(Tail(text))

\* String.prototype.substring(0, end): an end below 0 counts as 0, one
\* beyond the text as its length.
substring(text, end) ==
    SubSeq(text, 1, IF end < 0 THEN 0 ELSE IF end > Len(text) THEN Len(text) ELSE end)

Ellipsis == <<".", ".", ".">>

\* if (cleaned.length > maxLength)
\*     cleaned = cleaned.substring(0, maxLength - 3) + '...'
truncate(cleaned, maxLength) ==
    IF Len(cleaned) > maxLength
    THEN substring(cleaned, maxLength - 3) \o Ellipsis
    ELSE cleaned

\* cleaned.replace(/[\s*\[\]]/g, '').length
finalCheckLength(cleaned) ==
    Cardinality({i \in 1..Len(cleaned) : cleaned[i] \notin {" ", "*", "[", "]"}})

\* The text of sanitizeTtsMessage before its final check.
cleanedText(message, maxLength) ==
    truncate(joinWords(replaceSpam(trimText(message))), maxLength)

\* sanitizeTtsMessage returns null.
sanitizeRejects(message, maxLength) ==
    \/ trimText(message) = <<>>
    \/ finalCheckLength(cleanedText(message, maxLength)) = 0

\* A call of sanitizeTtsMessage returns.
SanitizeReturns ==
    /\ sanitized.pc = "called"
    /\ sanitized' = [sanitized EXCEPT
           !.pc = "returned",
           !.rejected = sanitizeRejects(sanitized.message, sanitized.maxLength),
           !.cleaned = IF sanitizeRejects(sanitized.message, sanitized.maxLength)
                       THEN <<>>
                       ELSE cleanedText(sanitized.message, sanitized.maxLength)]
    /\ UNCHANGED tts

(***************************************************************************)
(* PUT /api/drops/:slug/threshold (routes/drops.ts)                        *)
(***************************************************************************)

\* The thresholds of the request bodies, as the numbers their digits denote;
\* "-1" is a body that is no string of digits.
ThresholdInputs == -1..1

\* Checks that let the threshold change only once the Drop is launched.
thresholdGuardLaunchedOnly(caller, thresholdRaw, d) ==
    IF thresholdRaw < 0 THEN "BadRequest"
    ELSE IF d.ownerUserId # caller THEN "NotFound"
    ELSE IF d.status # "LAUNCHED" THEN "InvalidStateTransition"
    ELSE "pass"

\* The checks of the handler: the body, then the Drop by slug and owner.
thresholdGuardOutcome(caller, thresholdRaw, d) ==
    IF thresholdRaw < 0 THEN "BadRequest"
    ELSE IF d.ownerUserId # caller THEN "NotFound"
    ELSE "pass"

\* The request arrives; the handler awaits the update of the Drop.
UpdateThreshold(r, caller, thresholdRaw) ==
    /\ LET outcome == thresholdGuardOutcome(caller, thresholdRaw, drop) IN
         /\ TakesSlot(r, outcome)
         /\ launchReply' = [op |-> "threshold", caller |-> caller, arg |-> thresholdRaw,
                            status |-> drop.status, result |-> outcome]
         /\ oreq' = IF outcome = "pass"
                    THEN [oreq EXCEPT ![r] =
                            [@ EXCEPT !.pc = "threshold-update", !.op = "threshold",
                                      !.caller = caller, !.arg = thresholdRaw,
                                      !.snap = drop]]
                    ELSE oreq
    /\ UNCHANGED <<drop, nextMint, published>>

\* prisma.drop.update({ data: { holderThresholdRaw } })
ThresholdUpdated(r) ==
    /\ oreq[r].pc = "threshold-update"
    /\ drop' = [drop EXCEPT !.holderThresholdRaw = oreq[r].arg]
    /\ oreq' = [oreq EXCEPT ![r].pc = "threshold-publish"]
    /\ UNCHANGED <<launchReply, nextMint, published>>

\* broadcastToOverlay(THRESHOLD_UPDATED) and the reply.
ThresholdPublished(r) ==
    /\ oreq[r].pc = "threshold-publish"
    /\ published' = Append(published,
           [type |-> "THRESHOLD_UPDATED",
            data |-> [holderThresholdRaw |-> oreq[r].arg]])
    /\ oreq' = [oreq EXCEPT ![r] = [@ EXCEPT !.pc = "done", !.result = "ok"]]
    /\ UNCHANGED <<drop, launchReply, nextMint>>

----------------------------------------------------------------------------
(***************************************************************************)
(* DELETE /api/drops/:slug/polls/:pollId and POST /:slug/confirm-claim     *)
(* (routes/drops.ts)                                                       *)
(***************************************************************************)

ClaimSlots == 1..MaxClaimRequests

\* The poll ids of the DELETE requests: "p0" is the id of no Poll row.
ClosePollIds == {"p0", "p1"}

\* The bodies of confirm-claim: the empty array is refused.
SignatureLists == {<<>>, <<"sigA">>}

IdleC == [pc |-> "idle", op |-> "", pollId |-> "", signatures |-> <<>>, result |-> ""]

InitClaims ==
    /\ claims = <<>>
    /\ creq = [r \in ClaimSlots |-> IdleC]

\* The check of DELETE polls/:pollId with a read of the Drop by slug alone.
closeByAnyoneOutcome(caller, d) == "pass"

\* The check of DELETE polls/:pollId before its second read: the Drop by slug
\* and owner.
closePollGuardOutcome(caller, d) ==
    IF d.ownerUserId # caller THEN "NotFound" ELSE "pass"

\* The checks of confirm-claim: the body, then the Drop by slug and owner.
confirmClaimGuardOutcome(caller, signatures, d) ==
    IF Len(signatures) = 0 THEN "BadRequest"
    ELSE IF d.ownerUserId # caller THEN "NotFound"
    ELSE "pass"

\* What the steps of the two handlers leave alone.
claimRest == <<drop, oreq, nextMint, actions, vote, nextPoll, preq, fetching, fetched>>

\* DELETE polls/:pollId arrives: the Drop is read by slug and owner; the
\* handler then awaits the read of the poll.
ClosePoll(r, caller, pollId) ==
    /\ creq[r].pc = "idle"
    /\ \A q \in ClaimSlots : q < r => creq[q].pc # "idle"
    /\ LET outcome == closePollGuardOutcome(caller, drop) IN
         /\ launchReply' = [op |-> "close-poll", caller |-> caller, arg |-> pollId,
                            status |-> drop.status, result |-> outcome]
         /\ creq' = IF outcome = "pass"
                    THEN [creq EXCEPT ![r] = [IdleC EXCEPT !.pc = "find-poll",
                                                 !.op = "close-poll",
                                                 !.pollId = pollId]]
                    ELSE creq
    /\ UNCHANGED <<published, polls, claims>>
    /\ UNCHANGED claimRest

\* prisma.poll.findFirst({ where: { id, dropId } }): 404 when there is no
\* such poll, otherwise the handler awaits the update.
ClosePollFind(r) ==
    /\ creq[r].pc = "find-poll"
    /\ creq' = IF \E p \in polls : p.id = creq[r].pollId
               THEN [creq EXCEPT ![r].pc = "close"]
               ELSE [creq EXCEPT ![r] = [@ EXCEPT !.pc = "done",
                                                   !.result = "PollNotFound"]]
    /\ UNCHANGED <<launchReply, published, polls, claims>>
    /\ UNCHANGED claimRest

\* prisma.poll.update({ where: { id }, data: { isActive: false } })
PollClosed(r) ==
    /\ creq[r].pc = "close"
    /\ polls' = {IF p.id = creq[r].pollId THEN [p EXCEPT !.isActive = FALSE] ELSE p :
                    p \in polls}
    /\ creq' = [creq EXCEPT ![r].pc = "publish"]
    /\ UNCHANGED <<launchReply, published, claims>>
    /\ UNCHANGED claimRest

\* broadcastToOverlay(POLL_CLOSED) and the reply.
PollClosedPublished(r) ==
    /\ creq[r].pc = "publish"
    /\ published' = Append(published,
           [type |-> "POLL_CLOSED", data |-> [pollId |-> creq[r].pollId]])
    /\ creq' = [creq EXCEPT ![r] = [@ EXCEPT !.pc = "done", !.result = "ok"]]
    /\ UNCHANGED <<launchReply, polls, claims>>
    /\ UNCHANGED claimRest

\* POST confirm-claim arrives: the body is checked and the Drop is read by
\* slug and owner; the handler then awaits the creation of the Claim row.
ConfirmClaim(r, caller, signatures) ==
    /\ creq[r].pc = "idle"
    /\ \A q \in ClaimSlots : q < r => creq[q].pc # "idle"
    /\ LET outcome == confirmClaimGuardOutcome(caller, signatures, drop) IN
         /\ launchReply' = [op |-> "confirm-claim", caller |-> caller,
                            arg |-> signatures,
                            status |-> drop.status, result |-> outcome]
         /\ creq' = IF outcome = "pass"
                    THEN [creq EXCEPT ![r] = [IdleC EXCEPT !.pc = "claim-create",
                                                 !.op = "confirm-claim",
                                                 !.signatures = signatures]]
                    ELSE creq
    /\ UNCHANGED <<published, polls, claims>>
    /\ UNCHANGED claimRest

\* prisma.claim.create({ data: { dropId, signaturesJson } }) and the reply.
ClaimCreated(r) ==
    /\ creq[r].pc = "claim-create"
    /\ claims' = Append(claims, creq[r].signatures)
    /\ creq' = [creq EXCEPT ![r] = [@ EXCEPT !.pc = "done", !.result = "ok"]]
    /\ UNCHANGED <<launchReply, published, polls>>
    /\ UNCHANGED claimRest

----------------------------------------------------------------------------
(***************************************************************************)
(* Overlay hub (websocket/overlay.ts)                                      *)
(***************************************************************************)

Sockets == 1..MaxSockets

\* The slug of the Drop of the model, and the slug of another Drop.
DropSlug == "drop1"
Slugs == {DropSlug, "drop2"}

\* What a client may send: a keepalive, another JSON value, and no JSON.
InboundMessages == {"PING", "OTHER", "garbage"}

InitHub ==
    /\ overlayClients = EmptyMap
    /\ readyState = [ws \in Sockets |-> "NONE"]
    /\ slugOf = [ws \in Sockets |-> ""]
    /\ received = [ws \in Sockets |-> <<>>]
    /\ broadcasts = <<>>
    /\ pings = 0
    /\ errorLog = <<>>

\* A lookup that falls back on every registered client when the key is absent.
clientsOfAny(clients, slug) ==
    IF slug \in DOMAIN clients THEN clients[slug]
    ELSE UNION {clients[k] : k \in DOMAIN clients}

\* overlayClients.get(slug), with no client when the key is absent.
clientsOf(clients, slug) == IF slug \in DOMAIN clients THEN clients[slug] ELSE {}

\* A test of the transport that lets through a socket that is closing.
isSendableUnlessClosed(state) == state # "CLOSED"

\* client.readyState === WebSocket.OPEN
isSendable(state) == state = "OPEN"

\* The sockets broadcastToOverlay(slug, message) sends to.
recipients(clients, states, slug) ==
    {ws \in clientsOf(clients, slug) : isSendable(states[ws])}

\* broadcastToOverlay(slug, message): the message is sent to the clients of
\* the slug whose transport is open.
broadcastToOverlay(slug, message) ==
    /\ received' = [ws \in Sockets |->
                      IF ws \in recipients(overlayClients, readyState, slug)
                      THEN Append(received[ws], message)
                      ELSE received[ws]]
    /\ broadcasts' = Append(broadcasts, [slug |-> slug, message |-> message])

\* A registration that leaves the registry as it was.
addClientNowhere(clients, slug, ws) == clients

\* The registry with the socket added to the set of the slug.
addClient(clients, slug, ws) == MapSet(clients, slug, clientsOf(clients, slug) \cup {ws})

\* A close handler that leaves the empty set of a slug in the Map.
removeClientKeepKey(clients, slug, ws) ==
    IF slug \notin DOMAIN clients THEN clients
    ELSE MapSet(clients, slug, clients[slug] \ {ws})

\* The registry after the close handler: the socket leaves the set of its
\* slug, and an empty set leaves the Map.
removeClient(clients, slug, ws) ==
    IF slug \notin DOMAIN clients THEN clients
    ELSE IF clients[slug] \ {ws} = {} THEN MapDelete(clients, slug)
    ELSE MapSet(clients, slug, clients[slug] \ {ws})

\* GET /ws/overlay/:slug: a client connects; its socket is registered under
\* the slug and sent the CONNECTED message.
Connect(ws, slug) ==
    /\ readyState[ws] = "NONE"
    /\ \A q \in Sockets : q < ws => readyState[q] # "NONE"
    /\ readyState' = [readyState EXCEPT ![ws] = "OPEN"]
    /\ slugOf' = [slugOf EXCEPT ![ws] = slug]
    /\ overlayClients' = addClient(overlayClients, slug, ws)
    /\ received' = [received EXCEPT ![ws] =
                       Append(@, [type |-> "CONNECTED", data |-> [slug |-> slug]])]
    /\ UNCHANGED <<broadcasts, pings, errorLog>>

\* ws.on('message'): a PING is answered by a PONG, anything else is ignored.
OnMessage(ws, message) ==
    /\ readyState[ws] = "OPEN"
    /\ pings < MaxPings
    /\ pings' = pings + 1
    /\ received' = IF message = "PING"
                   THEN [received EXCEPT ![ws] = Append(@, [type |-> "PONG"])]
                   ELSE received
    /\ UNCHANGED <<overlayClients, readyState, slugOf, broadcasts, errorLog>>

\* The closing handshake of a socket starts: its readyState is CLOSING until
\* the 'close' event is emitted.
BeginClose(ws) ==
    /\ readyState[ws] = "OPEN"
    /\ readyState' = [readyState EXCEPT ![ws] = "CLOSING"]
    /\ UNCHANGED <<overlayClients, slugOf, received, broadcasts, pings, errorLog>>

\* ws.on('close'): the socket is closed and leaves the registry.
OnClose(ws) ==
    /\ readyState[ws] \in {"OPEN", "CLOSING"}
    /\ readyState' = [readyState EXCEPT ![ws] = "CLOSED"]
    /\ overlayClients' = removeClient(overlayClients, slugOf[ws], ws)
    /\ UNCHANGED <<slugOf, received, broadcasts, pings, errorLog>>

\* ws.on('error'): the handler logs the error.  What the transport does with
\* the socket on an error is the library's matter: the socket stays as it is
\* or starts closing, and its 'close' event, if one follows, is OnClose.
OnError(ws) ==
    /\ readyState[ws] \in {"OPEN", "CLOSING"}
    /\ ws \notin {errorLog[i] : i \in 1..Len(errorLog)}
    /\ errorLog' = Append(errorLog, ws)
    /\ readyState' \in {readyState, [readyState EXCEPT ![ws] = "CLOSING"]}
    /\ UNCHANGED <<overlayClients, slugOf, received, broadcasts, pings>>

\* getOverlayClientCount(slug)
getOverlayClientCount(clients, slug) ==
    IF slug \in DOMAIN clients THEN Cardinality(clients[slug]) ELSE 0

\* The events the handlers of a Drop publish, as far as the hub is concerned.
HubEvents == {[type |-> "TTS", data |-> [message |-> "hi"]],
              [type |-> "POLL_CLOSED", data |-> [pollId |-> "p1"]]}

\* A handler calls broadcastToOverlay.
Publish(slug, message) ==
    /\ Len(broadcasts) < MaxBroadcasts
    /\ broadcastToOverlay(slug, message)
    /\ UNCHANGED <<overlayClients, readyState, slugOf, pings, errorLog>>

----------------------------------------------------------------------------
(***************************************************************************)
(* Token balances and the holder threshold (services/solana.ts)            *)
(***************************************************************************)

BalanceSlots == 1..MaxBalanceCalls

\* The wallets and the mint of the calls; the handlers pass wallets that
\* publicKeySchema accepted and the mint of the Drop.
BalanceWallets == {"v1", "v2"}
BalanceMints == {1}

\* What the RPC node may answer: the token accounts of the wallet for the
\* mint, each with its raw amount; -1 is an account without a parsed amount.
AccountLists == {<<>>, <<1>>, <<1, -1>>, <<1, 1>>}

\* `${walletPubkey}:${tokenMint}`
cacheKey(walletPubkey, tokenMint) == <<walletPubkey, tokenMint>>

\* The loop over tokenAccounts.value: the sum of the amounts present.
RECURSIVE totalBalance(_)
totalBalance(accounts) ==
    IF accounts = <<>> THEN 0
    ELSE (IF Head(accounts) >= 0 THEN Head(accounts) ELSE 0) + totalBalance(Tail(accounts))

\* cached && Date.now() - cached.timestamp < tokenBalanceCacheSeconds * 1000
cacheFreshUnscaled(cache, key, t) ==
    /\ key \in DOMAIN cache
    /\ t - cache[key].timestamp < TOKEN_BALANCE_CACHE_SECONDS \div 1000

cacheFresh(cache, key, t) ==
    /\ key \in DOMAIN cache
    /\ t - cache[key].timestamp < TOKEN_BALANCE_CACHE_SECONDS

\* The entry of the key, or the entry that stands for `undefined`.
NoEntry == [present |-> FALSE, balance |-> 0, timestamp |-> 0]

cacheGet(cache, key) ==
    IF key \in DOMAIN cache
    THEN [present |-> TRUE, balance |-> cache[key].balance,
          timestamp |-> cache[key].timestamp]
    ELSE NoEntry

\* cached?.balance ?? BigInt(0)
fallbackBalance(cached) == IF cached.present THEN cached.balance ELSE 0

IdleBalance == [pc |-> "idle", key |-> cacheKey("", 0), cached |-> NoEntry,
                thresholdRaw |-> 0]

InitBalance ==
    /\ balanceCache = EmptyMap
    /\ breq = [r \in BalanceSlots |-> IdleBalance]
    /\ upstreamQueries = 0
    /\ balanceReply = [key |-> cacheKey("", 0), balance |-> 0, source |-> "",
                       thresholdRaw |-> 0, meets |-> FALSE]

\* checkHolderThreshold(wallet, mint, thresholdRaw) calls getTokenBalance:
\* with a fresh entry the cached balance is returned and compared at once,
\* otherwise the RPC node is queried and the call awaits its answer.
MeetsThreshold(r, walletPubkey, tokenMint, thresholdRaw) ==
    /\ breq[r].pc = "idle"
    /\ \A q \in BalanceSlots : q < r => breq[q].pc # "idle"
    /\ LET key == cacheKey(walletPubkey, tokenMint) IN
         IF cacheFresh(balanceCache, key, now)
         THEN /\ balanceReply' =
                    [key |-> key, balance |-> balanceCache[key].balance,
                     source |-> "cache", thresholdRaw |-> thresholdRaw,
                     meets |-> checkHolderThreshold(balanceCache[key].balance,
                                                    thresholdRaw)]
              /\ breq' = [breq EXCEPT ![r].pc = "done"]
              /\ UNCHANGED upstreamQueries
         ELSE /\ breq' = [breq EXCEPT ![r] =
                    [pc |-> "query", key |-> key,
                     cached |-> cacheGet(balanceCache, key),
                     thresholdRaw |-> thresholdRaw]]
              /\ upstreamQueries' = upstreamQueries + 1
              /\ UNCHANGED balanceReply
    /\ UNCHANGED balanceCache

\* The RPC node answers: the amounts are summed, the sum is cached with the
\* time of the answer, returned and compared.
BalanceFetched(r, accounts) ==
    /\ breq[r].pc = "query"
    /\ balanceCache' = MapSet(balanceCache, breq[r].key,
                              [balance |-> totalBalance(accounts), timestamp |-> now])
    /\ balanceReply' = [key |-> breq[r].key, balance |-> totalBalance(accounts),
                        source |-> "upstream", thresholdRaw |-> breq[r].thresholdRaw,
                        meets |-> checkHolderThreshold(totalBalance(accounts),
                                                       breq[r].thresholdRaw)]
    /\ breq' = [breq EXCEPT ![r] = [IdleBalance EXCEPT !.pc = "done"]]
    /\ UNCHANGED upstreamQueries

\* The query fails: the catch block returns the balance of the entry read
\* when the call began, or zero.
BalanceQueryFailed(r) ==
    /\ breq[r].pc = "query"
    /\ balanceReply' = [key |-> breq[r].key, balance |-> fallbackBalance(breq[r].cached),
                        source |-> "fallback", thresholdRaw |-> breq[r].thresholdRaw,
                        meets |-> checkHolderThreshold(fallbackBalance(breq[r].cached),
                                                       breq[r].thresholdRaw)]
    /\ breq' = [breq EXCEPT ![r] = [IdleBalance EXCEPT !.pc = "done"]]
    /\ UNCHANGED <<balanceCache, upstreamQueries>>

----------------------------------------------------------------------------
(***************************************************************************)
(* Specifications                                                          *)
(***************************************************************************)

\* The API at start with one Drop created, and with that Drop launched.
Init ==
    /\ InitAuth /\ InitLaunch /\ InitVote /\ InitPolls /\ InitTts /\ InitBalance
    /\ InitClaims /\ InitHub

InitAfterLaunch ==
    /\ InitAuth /\ InitLaunched /\ InitVote /\ InitPolls /\ InitTts /\ InitBalance
    /\ InitClaims /\ InitHub

\* The variables of the parts added to the three above.
restVars == <<pollVars, ttsVars, balanceVars, claimVars, hubVars>>

\* The authenticator under arbitrary clients of GET /nonce and POST /verify,
\* all within one second of the clock (SpecSession lets time pass).
AuthSteps ==
    \/ \E w \in Wallets : IssueChallenge(w)
    \/ \E r \in VSlots, w \in Wallets, m \in Messages :
          \E sig \in Signatures({m}) : Verify(r, w, sig, m)
    \/ \E r \in VSlots : VerifyFindUser(r)
    \/ \E r \in VSlots : VerifyCreateUser(r)
    \/ \E r \in VSlots : VerifyCreateSession(r)

NextAuth ==
    AuthSteps /\ UNCHANGED launchVars /\ UNCHANGED voteVars /\ UNCHANGED restVars

SpecAuth == Init /\ [][NextAuth]_vars

\* The session store: wallets log in with the signature of their current
\* challenge; sessions are validated, destroyed and swept as time passes.
SessionSteps ==
    \/ \E d \in {SESSION_EXPIRY_SEC, SESSION_EXPIRY_SEC + 1} : Tick(d)
    \/ \E w \in Wallets : Len(issued) < MaxLogins /\ IssueChallenge(w)
    \/ \E r \in 1..MaxLogins, w \in DOMAIN nonceStore :
          Verify(r, w, SignatureOf(w, nonceStore[w].message), nonceStore[w].message)
    \/ \E r \in VSlots : VerifyFindUser(r)
    \/ \E r \in VSlots : VerifyCreateUser(r)
    \/ \E r \in VSlots : VerifyCreateSession(r)
    \/ \E r \in SSlots, token \in Tokens : ValidateFind(r, token)
    \/ \E r \in SSlots : ValidateCheck(r)
    \/ \E r \in SSlots : ValidateDelete(r)
    \/ \E r \in SSlots : ValidateUpdate(r)
    \/ \E token \in Tokens : Logout(token)
    \/ SweepExpired

NextSession ==
    SessionSteps /\ UNCHANGED launchVars /\ UNCHANGED voteVars /\ UNCHANGED restVars

SpecSession == Init /\ [][NextSession]_vars

\* The authenticator while the TTL of a challenge runs out: the clock moves
\* by the TTL or by a second more.
NonceSteps ==
    \/ \E d \in {NONCE_TTL_SEC, NONCE_TTL_SEC + 1} : Tick(d)
    \/ AuthSteps

NextNonce ==
    NonceSteps /\ UNCHANGED launchVars /\ UNCHANGED voteVars /\ UNCHANGED restVars

SpecNonce == Init /\ [][NextNonce]_vars

NextLaunch ==
    LaunchSteps /\ UNCHANGED authVars /\ UNCHANGED voteVars /\ UNCHANGED restVars

SpecLaunch == Init /\ [][NextLaunch]_vars

\* The ledger of a launched Drop with one active poll: viewers vote
\* concurrently, each request interleaving with the others at its awaits.
\* The viewers are named in the order in which they first come forward.
KnownViewers ==
    {vote[r].viewerWallet : r \in VoteSlots} \cup
    {actions[i].viewerWallet : i \in 1..Len(actions)}

NextViewer(w) ==
    \/ w \notin Viewers
    \/ w \in KnownViewers
    \/ \A i \in 1..Len(ViewerOrder) :
          ViewerOrder[i] = w => \A j \in 1..(i - 1) : ViewerOrder[j] \in KnownViewers

VoteRequests ==
    \E r \in VoteSlots :
       /\ vote[r].pc = "idle"
       /\ \E w \in WalletInputs :
             /\ NextViewer(w)
             /\ \E pollId \in PollIdInputs, optionIndex \in OptionInputs,
                   balance \in Balances :
                      VoteRequest(r, w, pollId, optionIndex, balance)

VoteSteps ==
    \/ VoteRequests
    \/ \E r \in VoteSlots : VoteLookup(r)
    \/ \E r \in VoteSlots : VoteInsert(r)
    \/ \E r \in VoteSlots : VoteTally(r)
    \/ \E r \in VoteSlots : VotePublish(r)

NextVote ==
    /\ VoteSteps
    /\ UNCHANGED authVars
    /\ UNCHANGED <<oreq, launchReply, nextMint>>
    /\ UNCHANGED restVars

SpecVote == InitAfterLaunch /\ [][NextVote]_vars

\* The ledger across polls: viewers vote on the poll that is active, the
\* owner opens a new poll (which closes the one before), and the viewer page
\* and the overlay fetch the state of the Drop.
TallyVoteRequests ==
    \E r \in 1..MaxTallyVotes :
       /\ vote[r].pc = "idle"
       /\ \E w \in Viewers :
             /\ NextViewer(w)
             /\ \E p \in polls, optionIndex \in 0..1, balance \in Balances :
                   VoteRequest(r, w, p.id, optionIndex, balance)

\* What a step of the vote handler leaves alone besides the ledger.
voteRest == <<oreq, launchReply, nextMint, nextPoll, preq, fetching, fetched>>

TallySteps ==
    \/ TallyVoteRequests /\ UNCHANGED voteRest
    \/ \E r \in VoteSlots : VoteLookup(r) /\ UNCHANGED voteRest
    \/ \E r \in VoteSlots : VoteInsert(r) /\ UNCHANGED voteRest
    \/ \E r \in VoteSlots : VoteTally(r) /\ UNCHANGED voteRest
    \/ \E r \in VoteSlots : VotePublish(r) /\ UNCHANGED voteRest
    \/ \E r \in 1..MaxTallyPolls, caller \in Callers, question \in Questions,
          options \in OptionLists : CreatePoll(r, caller, question, options)
    \/ \E r \in PollSlots : PollsDeactivated(r)
    \/ \E r \in PollSlots : PollCreated(r)
    \/ \E r \in PollSlots : PollPublished(r)
    \/ \E route \in {"viewer", "overlay"} : FetchState(route)
    \/ FetchTally

NextTally ==
    /\ TallySteps
    /\ UNCHANGED authVars /\ UNCHANGED ttsVars /\ UNCHANGED balanceVars
    /\ UNCHANGED claimVars /\ UNCHANGED hubVars

SpecTally == InitAfterLaunch /\ [][NextTally]_vars

\* The gate of the viewer actions: the owner confirms the launch and moves
\* the threshold while viewers send messages and votes.
ConfigCreatedDrop == [NewDrop EXCEPT !.status = "CONFIG_CREATED", !.tokenMint = 1,
                                     !.tokenMetadataUrl = 1, !.configKey = "ck1"]

InitGate ==
    /\ InitAuth /\ InitVote /\ InitPolls /\ InitTts /\ InitBalance /\ InitClaims
    /\ InitHub
    /\ drop = ConfigCreatedDrop
    /\ oreq = [r \in OSlots |-> IdleO]
    /\ launchReply = [op |-> "", caller |-> "", arg |-> "", status |-> "", result |-> ""]
    /\ nextMint = 2
    /\ published = <<>>

\* What a step of a viewer's request leaves alone besides the ledger.
viewerRest == <<oreq, launchReply, nextMint, nextPoll, preq, fetching, fetched>>

\* What a step of the owner's request leaves alone besides the Drop.
ownerRest == <<polls, actions, vote, tts, nextPoll, preq, fetching, fetched>>

GateVoteRequests ==
    /\ vote[1].pc = "idle"
    /\ \E balance \in Balances : VoteRequest(1, "v1", "p1", 0, balance)

GateTtsRequests ==
    \E r \in TtsSlots, w \in {"", "v1"}, message \in TtsMessages, balance \in Balances :
       TtsRequest(r, w, message, balance)

GateSteps ==
    \/ GateVoteRequests /\ UNCHANGED viewerRest /\ UNCHANGED tts
    \/ \E r \in VoteSlots : VoteLookup(r) /\ UNCHANGED viewerRest /\ UNCHANGED tts
    \/ \E r \in VoteSlots : VoteInsert(r) /\ UNCHANGED viewerRest /\ UNCHANGED tts
    \/ \E r \in VoteSlots : VoteTally(r) /\ UNCHANGED viewerRest /\ UNCHANGED tts
    \/ \E r \in VoteSlots : VotePublish(r) /\ UNCHANGED viewerRest /\ UNCHANGED tts
    \/ GateTtsRequests /\ UNCHANGED viewerRest /\ UNCHANGED vote
    \/ \E r \in TtsSlots : TtsInsert(r) /\ UNCHANGED viewerRest /\ UNCHANGED vote
    \/ \E r \in TtsSlots : TtsPublish(r) /\ UNCHANGED viewerRest /\ UNCHANGED vote
    \/ ConfirmLaunch(1, "owner", "sig1") /\ UNCHANGED ownerRest
    \/ \E r \in OSlots : LaunchConfirmed(r) /\ UNCHANGED ownerRest
    \/ \E r \in OSlots : LaunchPublished(r) /\ UNCHANGED ownerRest
    \/ \E t \in ThresholdInputs : UpdateThreshold(2, "owner", t) /\ UNCHANGED ownerRest
    \/ \E r \in OSlots : ThresholdUpdated(r) /\ UNCHANGED ownerRest
    \/ \E r \in OSlots : ThresholdPublished(r) /\ UNCHANGED ownerRest

NextGate ==
    /\ GateSteps
    /\ UNCHANGED sanitized
    /\ UNCHANGED authVars /\ UNCHANGED balanceVars /\ UNCHANGED claimVars
    /\ UNCHANGED hubVars

SpecGate == InitGate /\ [][NextGate]_vars

\* The balance cache: holder checks for two wallets while the clock passes
\* the lifetime of an entry and the RPC node answers or fails.
BalanceClock ==
    /\ \E d \in {TOKEN_BALANCE_CACHE_SECONDS - 1, TOKEN_BALANCE_CACHE_SECONDS} : Tick(d)
    /\ UNCHANGED balanceVars

BalanceSteps ==
    \/ BalanceClock
    \/ \E r \in BalanceSlots, w \in BalanceWallets, mint \in BalanceMints,
          thresholdRaw \in 0..1 :
            MeetsThreshold(r, w, mint, thresholdRaw) /\ UNCHANGED authVars
    \/ \E r \in BalanceSlots, accounts \in AccountLists :
            BalanceFetched(r, accounts) /\ UNCHANGED authVars
    \/ \E r \in BalanceSlots : BalanceQueryFailed(r) /\ UNCHANGED authVars

NextBalance ==
    /\ BalanceSteps
    /\ UNCHANGED launchVars /\ UNCHANGED voteVars
    /\ UNCHANGED pollVars /\ UNCHANGED ttsVars /\ UNCHANGED claimVars
    /\ UNCHANGED hubVars

SpecBalance == Init /\ [][NextBalance]_vars

\* The hub alone: clients connect under two slugs, send keepalives and
\* leave, while handlers publish events under either slug.
HubSteps ==
    \/ \E ws \in Sockets, slug \in Slugs : Connect(ws, slug)
    \/ \E ws \in Sockets, message \in InboundMessages : OnMessage(ws, message)
    \/ \E ws \in Sockets : BeginClose(ws)
    \/ \E ws \in Sockets : OnClose(ws)
    \/ \E ws \in Sockets : OnError(ws)
    \/ \E slug \in Slugs, message \in HubEvents : Publish(slug, message)

NextHub ==
    /\ HubSteps
    /\ UNCHANGED authVars /\ UNCHANGED launchVars /\ UNCHANGED voteVars
    /\ UNCHANGED pollVars /\ UNCHANGED ttsVars /\ UNCHANGED balanceVars
    /\ UNCHANGED claimVars

SpecHub == Init /\ [][NextHub]_vars

\* The hub and the votes of a launched Drop with a fresh poll of two
\* options: clients connect and leave while viewers vote, and the vote
\* handler publishes under the slug of the Drop.
FreshPoll == [id |-> "p1", options |-> <<"A", "B">>, isActive |-> TRUE]

InitHubVote ==
    /\ InitAuth /\ InitLaunched /\ InitPolls /\ InitTts /\ InitBalance /\ InitClaims
    /\ InitHub
    /\ polls = {FreshPoll}
    /\ actions = <<>>
    /\ vote = [r \in VoteSlots |-> IdleVote]

HubVoteRequests ==
    \E r \in 1..MaxHubVotes :
       /\ vote[r].pc = "idle"
       /\ \E w \in Viewers :
             /\ NextViewer(w)
             /\ \E optionIndex \in 0..1 : VoteRequest(r, w, FreshPoll.id, optionIndex, 1)

\* The last step of the vote handler with the delivery of its event.
VotePublished(r) ==
    /\ VotePublish(r)
    /\ broadcastToOverlay(DropSlug, published'[Len(published')])

\* What a step of the hub leaves alone, and a step of a vote.
hubRest == <<drop, published, polls, actions, vote>>
voteHubRest == <<overlayClients, readyState, slugOf, pings, errorLog>>

HubVoteSteps ==
    \/ \E ws \in Sockets, slug \in Slugs : Connect(ws, slug) /\ UNCHANGED hubRest
    \/ \E ws \in Sockets : BeginClose(ws) /\ UNCHANGED hubRest
    \/ \E ws \in Sockets : OnClose(ws) /\ UNCHANGED hubRest
    \/ HubVoteRequests /\ UNCHANGED hubVars
    \/ \E r \in VoteSlots : VoteLookup(r) /\ UNCHANGED hubVars
    \/ \E r \in VoteSlots : VoteInsert(r) /\ UNCHANGED hubVars
    \/ \E r \in VoteSlots : VoteTally(r) /\ UNCHANGED hubVars
    \/ \E r \in VoteSlots : VotePublished(r) /\ UNCHANGED voteHubRest

NextHubVote ==
    /\ HubVoteSteps
    /\ UNCHANGED authVars /\ UNCHANGED <<oreq, launchReply, nextMint>>
    /\ UNCHANGED pollVars /\ UNCHANGED ttsVars /\ UNCHANGED balanceVars
    /\ UNCHANGED claimVars

SpecHubVote == InitHubVote /\ [][NextHubVote]_vars

\* The polls of a Drop: the owner opens polls, with requests that may
\* overlap, and closes polls.
PollSteps ==
    \/ \E r \in PollSlots : CreatePoll(r, "owner", "q", <<"x", "y">>) /\ UNCHANGED claimVars
    \/ \E r \in PollSlots : PollsDeactivated(r) /\ UNCHANGED claimVars
    \/ \E r \in PollSlots : PollCreated(r) /\ UNCHANGED claimVars
    \/ \E r \in PollSlots : PollPublished(r) /\ UNCHANGED claimVars
    \/ \E r \in ClaimSlots, pollId \in ClosePollIds : ClosePoll(r, "owner", pollId)
    \/ \E r \in ClaimSlots : ClosePollFind(r)
    \/ \E r \in ClaimSlots : PollClosed(r)
    \/ \E r \in ClaimSlots : PollClosedPublished(r)

NextPolls ==
    /\ PollSteps
    /\ UNCHANGED authVars /\ UNCHANGED ttsVars /\ UNCHANGED balanceVars
    /\ UNCHANGED hubVars

SpecPolls == InitAfterLaunch /\ [][NextPolls]_vars

\* The owner's own requests on the way from the draft to the launch, with
\* requests for the token info that may overlap each other and the
\* confirmations.
RaceSteps ==
    \/ \E r \in OSlots :
          /\ guardOutcome("create-token-info", "owner", "", drop) = "pass"
          /\ AdvanceToTokenInfo(r, "owner")
    \/ \E r \in OSlots :
          /\ guardOutcome("confirm-fee-config", "owner", "ck1", drop) = "pass"
          /\ ConfirmConfig(r, "owner", "ck1")
    \/ \E r \in OSlots :
          /\ guardOutcome("confirm-launch", "owner", "sig1", drop) = "pass"
          /\ ConfirmLaunch(r, "owner", "sig1")
    \/ \E r \in OSlots : TokenInfoReturned(r)
    \/ \E r \in OSlots : TokenInfoCreated(r)
    \/ \E r \in OSlots : ConfigConfirmed(r)
    \/ \E r \in OSlots : LaunchConfirmed(r)
    \/ \E r \in OSlots : LaunchPublished(r)

NextRace ==
    RaceSteps /\ UNCHANGED authVars /\ UNCHANGED voteVars /\ UNCHANGED restVars

SpecRace == Init /\ [][NextRace]_vars

\* The owner moves the threshold while taking the Drop from the draft to
\* the launch.
ThresholdSteps ==
    \/ RaceSteps
    \/ \E r \in OSlots, t \in 0..1 : UpdateThreshold(r, "owner", t)
    \/ \E r \in OSlots : ThresholdUpdated(r)
    \/ \E r \in OSlots : ThresholdPublished(r)

NextThreshold ==
    ThresholdSteps /\ UNCHANGED authVars /\ UNCHANGED voteVars /\ UNCHANGED restVars

SpecThreshold == Init /\ [][NextThreshold]_vars

\* A user asks for the Drop with any fee split, before any other request,
\* and takes it from the draft to the launch, moving the threshold on the
\* way.
InitDraft ==
    /\ InitAuth /\ InitNoDrop /\ InitVote /\ InitPolls /\ InitTts /\ InitBalance
    /\ InitClaims /\ InitHub

DraftSteps ==
    \/ \E streamerBps \in BpsInputs, prizePoolBps \in BpsInputs :
          /\ \A r \in OSlots : oreq[r].pc = "idle"
          /\ CreateDraft("owner", streamerBps, prizePoolBps)
    \/ ThresholdSteps

NextDraft ==
    DraftSteps /\ UNCHANGED authVars /\ UNCHANGED voteVars /\ UNCHANGED restVars

SpecDraft == InitDraft /\ [][NextDraft]_vars

\* The compiled build's confirm-launch on a Drop whose fee configuration is
\* confirmed, requested by the owner and by another user, with and without
\* a signature.
DistSteps ==
    \/ \E r \in LaunchSlots, caller \in Callers, g \in {"", "sig1"} :
          ConfirmLaunchDist(r, caller, g)
    \/ \E r \in OSlots : LaunchConfirmedDist(r)
    \/ \E r \in OSlots : LaunchPublishedDist(r)

NextDist ==
    DistSteps /\ UNCHANGED authVars /\ UNCHANGED voteVars /\ UNCHANGED restVars

SpecDist == InitGate /\ [][NextDist]_vars

\* sanitizeTtsMessage called on every text with every configured length.
InitSanitize ==
    /\ InitAuth /\ InitLaunch /\ InitVote /\ InitPolls /\ InitBalance
    /\ InitClaims /\ InitHub
    /\ tts = [r \in TtsSlots |-> IdleTts]
    /\ sanitized \in {[NoSanitizeCall EXCEPT !.pc = "called", !.message = message,
                                              !.maxLength = maxLength] :
                          message \in Texts, maxLength \in ConfiguredLengths}

NextSanitize ==
    /\ SanitizeReturns
    /\ UNCHANGED authVars /\ UNCHANGED launchVars /\ UNCHANGED voteVars
    /\ UNCHANGED pollVars /\ UNCHANGED balanceVars /\ UNCHANGED claimVars
    /\ UNCHANGED hubVars

SpecSanitize == InitSanitize /\ [][NextSanitize]_vars

\* The owner's operations requested by the owner and by another
\* authenticated user: the owner takes the Drop through its statuses, with
\* the requests that pass their checks, closes a poll and records a claim,
\* while the other
\* user makes every request with every body.
BodiesOf(caller, bodies, ownerBody) == IF caller = "owner" THEN {ownerBody} ELSE bodies

Passes(caller, outcome) == caller = "owner" => outcome = "pass"

\* What a step of a launch or threshold request leaves alone.
launchRest == <<ownerRest, claimVars>>

OwnerSteps ==
    \/ \E r \in LaunchSlots, caller \in Callers :
          /\ Passes(caller, guardOutcome("create-token-info", caller, "", drop))
          /\ AdvanceToTokenInfo(r, caller) /\ UNCHANGED launchRest
    \/ \E r \in LaunchSlots, caller \in Callers :
          /\ Passes(caller, guardOutcome("create-fee-config", caller, "", drop))
          /\ AdvanceToConfigPending(r, caller) /\ UNCHANGED launchRest
    \/ \E r \in LaunchSlots, caller \in Callers :
          \E k \in BodiesOf(caller, ConfigKeys, "ck1") :
             /\ Passes(caller, guardOutcome("confirm-fee-config", caller, k, drop))
             /\ ConfirmConfig(r, caller, k) /\ UNCHANGED launchRest
    \/ \E r \in LaunchSlots, caller \in Callers :
          /\ Passes(caller, guardOutcome("create-launch-tx", caller, "", drop))
          /\ PrepareLaunchTransaction(r, caller) /\ UNCHANGED launchRest
    \/ \E r \in LaunchSlots, caller \in Callers :
          \E g \in BodiesOf(caller, LaunchSigs, "sig1") :
             /\ Passes(caller, guardOutcome("confirm-launch", caller, g, drop))
             /\ ConfirmLaunch(r, caller, g) /\ UNCHANGED launchRest
    \/ \E r \in OSlots : TokenInfoReturned(r) /\ UNCHANGED launchRest
    \/ \E r \in OSlots : TokenInfoCreated(r) /\ UNCHANGED launchRest
    \/ \E r \in OSlots : TransactionsPrepared(r) /\ UNCHANGED launchRest
    \/ \E r \in OSlots : LaunchServiceFailed(r) /\ UNCHANGED launchRest
    \/ \E r \in OSlots : ConfigConfirmed(r) /\ UNCHANGED launchRest
    \/ \E r \in OSlots : LaunchConfirmed(r) /\ UNCHANGED launchRest
    \/ \E r \in OSlots : LaunchPublished(r) /\ UNCHANGED launchRest
    \/ \E r \in OSlots, t \in ThresholdInputs :
          UpdateThreshold(r, "other", t) /\ UNCHANGED launchRest
    \/ \E r \in PollSlots, question \in Questions, options \in OptionLists :
          CreatePoll(r, "other", question, options) /\ UNCHANGED claimVars
    \/ \E r \in ClaimSlots, caller \in Callers :
          \E pollId \in BodiesOf(caller, ClosePollIds, "p1") :
             ClosePoll(r, caller, pollId)
    \/ \E r \in ClaimSlots : ClosePollFind(r)
    \/ \E r \in ClaimSlots : PollClosed(r)
    \/ \E r \in ClaimSlots : PollClosedPublished(r)
    \/ \E r \in ClaimSlots, caller \in Callers :
          \E signatures \in BodiesOf(caller, SignatureLists, <<"sigA">>) :
             ConfirmClaim(r, caller, signatures)
    \/ \E r \in ClaimSlots : ClaimCreated(r)

NextOwner ==
    /\ OwnerSteps
    /\ UNCHANGED authVars /\ UNCHANGED ttsVars /\ UNCHANGED balanceVars
    /\ UNCHANGED hubVars

SpecOwner == Init /\ [][NextOwner]_vars

----------------------------------------------------------------------------
(***************************************************************************)
(* Properties of the authenticator                                         *)
(***************************************************************************)

\* The step is a POST /verify; its arguments are the ones the reply echoes.
VerifyStep ==
    \E r \in VSlots :
        Verify(r, verifyReply'.wallet, verifyReply'.sig, verifyReply'.message)

\* The challenge m was issued for wallet w and a later challenge was issued
\* for w as well.
Superseded(w, m) ==
    \E i, j \in 1..Len(issued) :
        i < j /\ issued[i] = m /\ issued[i].wallet = w /\ issued[j].wallet = w

Presented(q) == <<q.wallet, q.sig, q.message>>

\* C5: no two verifications that passed presented the same (wallet,
\* signature, message), and a verification that presents the triple of one
\* that passed is answered NonceExpiredOrMissing.
C5_ChallengeConsumedAtMostOnce ==
    /\ \A q1, q2 \in VSlots :
         (q1 # q2 /\ vreq[q1].pc # "idle" /\ vreq[q2].pc # "idle")
            => Presented(vreq[q1]) # Presented(vreq[q2])
    /\ \A q \in VSlots :
         (/\ vreq[q].pc # "idle"
          /\ Presented(verifyReply) = Presented(vreq[q])
          /\ verifyReply.result # "verified")
            => verifyReply.result = "NonceExpiredOrMissing"

\* C5 witness: one verification passed and the latest verification presented
\* the same triple and was refused.
C5_Witness ==
    \E q \in VSlots :
        /\ vreq[q].pc # "idle"
        /\ Presented(verifyReply) = Presented(vreq[q])
        /\ verifyReply.result = "NonceExpiredOrMissing"

\* The wallet has a stored nonce that is within its TTL.
HasLiveNonce(w) ==
    /\ w \in DOMAIN nonceStore
    /\ now - nonceStore[w].issuedAtMs <= NONCE_TTL_SEC

\* C6 (as claimed): every verification for a wallet that has a live nonce
\* ends verified or with one of NonceExpiredOrMissing,
\* InvalidSignatureEncoding, InvalidSignatureLength,
\* SignatureVerificationFailed, and leaves no nonce stored for the wallet.
C6_NonceConsumedRegardlessOfOutcome ==
    [][(VerifyStep /\ HasLiveNonce(verifyReply'.wallet))
          => /\ verifyReply'.wallet \notin DOMAIN nonceStore'
             /\ verifyReply'.result \in
                  {"verified", "NonceExpiredOrMissing",
                   "InvalidSignatureEncoding", "InvalidSignatureLength",
                   "SignatureVerificationFailed"}]_vars

\* C7: a verification continues past the nonce and signature checks only if
\* the presented message is the wallet's stored, unexpired nonce and the
\* signature is the wallet's own over that message; a verification creates
\* nothing before that; every Session and every User was created by a
\* verification that passed, for its wallet.
C7_SessionOnlyAfterVerification ==
    [][/\ VerifyStep
          => /\ sessions' = sessions /\ users' = users
             /\ \/ /\ HasLiveNonce(verifyReply'.wallet)
                   /\ nonceStore[verifyReply'.wallet].message = verifyReply'.message
                   /\ verifyReply'.sig = [kind |-> "ed25519",
                                          signer |-> verifyReply'.wallet,
                                          msg |-> verifyReply'.message]
                \/ /\ vreq' = vreq
                   /\ verifyReply'.result # "verified"
       /\ \A s \in sessions' :
            \E q \in VSlots : /\ vreq'[q].pc = "done"
                              /\ vreq'[q].result = "ok"
                              /\ vreq'[q].token = s.id
                              /\ vreq'[q].userId = s.userId
       /\ \A u \in users' :
            \E q \in VSlots : /\ vreq'[q].pc \in {"createSession", "done"}
                              /\ vreq'[q].wallet = u.walletPubkey
       /\ \A q \in VSlots :
            vreq'[q].pc # "idle"
               => /\ \E i \in 1..Len(issued') : issued'[i] = vreq'[q].message
                  /\ vreq'[q].message.wallet = vreq'[q].wallet
                  /\ vreq'[q].sig = [kind |-> "ed25519", signer |-> vreq'[q].wallet,
                                     msg |-> vreq'[q].message]]_vars

\* C7 witness: a first login created the User and a Session, after some
\* verification for the same wallet had been refused.
C7_Witness ==
    /\ \E q \in VSlots : vreq[q].pc = "done" /\ vreq[q].result = "ok"
    /\ users # {}
    /\ sessions # {}
    /\ verifyReply.result = "SignatureVerificationFailed"

\* C8: a validateSession that found a session and read the clock after the
\* session's expiry returned null and the record is gone (so no later sweep
\* can count or remove it); one that read the clock no later than the expiry
\* returned the id and the wallet of the user that logged in.
C8_ExpiredSessionRejectedAndRemoved ==
    \A r \in SSlots :
        (sreq[r].pc = "done" /\ sreq[r].session # NullSession)
           => IF sreq[r].nowRead > sreq[r].session.expiresAt
              THEN /\ sreq[r].result = NullUser
                   /\ \A s \in sessions : s.id # sreq[r].session.id
              ELSE /\ sreq[r].result.userId = sreq[r].session.userId
                   /\ \E q \in VSlots :
                        /\ vreq[q].token = sreq[r].session.id
                        /\ vreq[q].userId = sreq[r].result.userId
                        /\ vreq[q].wallet = sreq[r].result.walletPubkey

\* C8 witness: a validateSession found the session, read the clock after its
\* expiry and returned null.
C8_Witness ==
    \E r \in SSlots :
        /\ sreq[r].pc = "done"
        /\ sreq[r].session # NullSession
        /\ sreq[r].nowRead > sreq[r].session.expiresAt
        /\ sreq[r].result = NullUser

\* No session is stored under the hash of the token.
Absent(ss, token) == \A s \in ss : s.cookieTokenHash # <<"sha256", token>>

\* C9: in every state, destroying any presented token leaves no session for
\* it, destroying it again changes nothing, destroying a token that has no
\* session changes nothing, and no other session is touched; a token whose
\* session is gone never has a session again; and a validateSession that
\* starts when the token has no session returns null.
C9_DestroySessionIdempotent ==
    [][/\ \A token \in 0..(nextToken' - 1) :
            LET after == deleteSession(sessions', token)
            IN  /\ Absent(after, token)
                /\ deleteSession(after, token) = after
                /\ Absent(sessions', token) => after = sessions'
                /\ after = {s \in sessions' : s.id # token}
       /\ \A token \in 0..(nextToken - 1) :
            Absent(sessions, token) => Absent(sessions', token)
       /\ \A r \in SSlots :
            (/\ sreq[r].pc = "idle"
             /\ sreq'[r].pc # "idle"
             /\ Absent(sessions, sreq'[r].token))
               => /\ sreq'[r].pc = "done"
                  /\ sreq'[r].result = NullUser]_vars

\* C9 witness: a token was minted, its session was destroyed before it could
\* expire, and a validateSession with the token found nothing and returned
\* null.
C9_Witness ==
    \E r \in SSlots :
        /\ sreq[r].pc = "done"
        /\ sreq[r].token >= 1
        /\ sreq[r].session = NullSession
        /\ sreq[r].result = NullUser
        /\ ticks = 0
        /\ sessions = {}

\* The status a launch step requires of the Drop it reads.
RequiredStatus(op) ==
    CASE op = "create-token-info" -> "DRAFT"
      [] op = "create-fee-config" -> "TOKEN_INFO_CREATED"
      [] op = "confirm-fee-config" -> "TOKEN_INFO_CREATED"
      [] op = "create-launch-tx" -> "CONFIG_CREATED"
      [] op = "confirm-launch" -> "CONFIG_CREATED"

\* C2 (as claimed): no step changes the Drop's status to an earlier one in
\* the order DRAFT < TOKEN_INFO_CREATED < CONFIG_CREATED < LAUNCHED.
C2_StatusOnlyMovesForward ==
    [][StatusRank(drop'.status) >= StatusRank(drop.status)]_vars

\* C3: a launch step goes on past its guards only if the status it read is
\* exactly the one it requires (and, of itself, the request changes neither
\* the Drop nor the published events); a request whose status is another one
\* is answered by a refusal and takes no further step: every change of the
\* Drop and every published event is the step of a request that read its
\* required status, and only such a request ends ok.
C3_NoStepSkipped ==
    [][/\ \A r \in OSlots :
            (oreq[r].pc = "idle" /\ oreq'[r].pc # "idle")
               => /\ drop.status = RequiredStatus(oreq'[r].op)
                  /\ drop' = drop
                  /\ published' = published
       /\ (launchReply' # launchReply
             /\ launchReply'.status # RequiredStatus(launchReply'.op))
               => /\ launchReply'.result \in
                       {"InvalidStateTransition", "NotFound", "BadRequest"}
                  /\ oreq' = oreq
                  /\ drop' = drop
                  /\ published' = published
       /\ (drop' # drop \/ published' # published)
               => \E r \in OSlots :
                     /\ oreq[r].pc \in {"await", "update", "publish"}
                     /\ oreq'[r] # oreq[r]
                     /\ oreq[r].snap.status = RequiredStatus(oreq[r].op)
       /\ \A r \in OSlots :
            oreq'[r].result = "ok"
               => oreq'[r].snap.status = RequiredStatus(oreq'[r].op)]_vars

\* C3 witness: the owner's confirm-launch was refused on a Drop whose status
\* was not CONFIG_CREATED, after an earlier step had succeeded; nothing was
\* published.
C3_Witness ==
    /\ launchReply.op = "confirm-launch"
    /\ launchReply.caller = "owner"
    /\ launchReply.status = "TOKEN_INFO_CREATED"
    /\ launchReply.result = "InvalidStateTransition"
    /\ drop.status = "TOKEN_INFO_CREATED"
    /\ \E r \in OSlots : oreq[r].result = "ok"
    /\ published = <<>>

----------------------------------------------------------------------------
(***************************************************************************)
(* Properties of the action ledger                                         *)
(***************************************************************************)

\* The rows of the ledger that are the vote of wallet w on poll pollId.
VotesOf(w, pollId) ==
    {i \in 1..Len(actions) : /\ actions[i].type = "VOTE"
                             /\ actions[i].viewerWallet = w
                             /\ actions[i].payloadJson[2] = pollId}

\* C1: for every (Drop, wallet, pollId), whatever the interleaving of the
\* check and insert steps of concurrent SubmitVote calls with the same
\* arguments, at most one VOTE Action exists for the triple (so at most one
\* of the calls succeeded and the others failed with DuplicateVote).
C1_AtMostOneVotePerWalletAndPoll ==
    \A w \in Viewers, pollId \in PollIdInputs : Cardinality(VotesOf(w, pollId)) <= 1

\* The votes in the ledger for option k of the poll.
Inserted(pollId, k) ==
    {i \in 1..Len(actions) : /\ actions[i].type = "VOTE"
                             /\ actions[i].payloadJson[2] = pollId
                             /\ actions[i].payloadJson[4] = ToString(k)}

\* The votes in the ledger come from distinct wallets.
DistinctVoters ==
    \A i, j \in 1..Len(actions) :
        actions[i].viewerWallet = actions[j].viewerWallet => i = j

\* C10: tally round-trip.  When the votes on the active poll come from
\* distinct wallets, the tally of a request that reads the ledger after the
\* insertions so far (the tally it returns and publishes) has, at every
\* index k, the number of votes inserted for option k: N at k, M at j and 0
\* at every other index, whatever the interleaving of the requests.  The
\* tally a request publishes was read before the votes inserted since: it
\* counts the request's own vote and never more than the ledger holds.
C10_TallyRoundTrip ==
    [][/\ \A r \in VoteSlots :
          (vote[r].pc = "tally" /\ vote'[r].pc = "publish" /\ DistinctVoters)
             => LET counts == voteCountsOf(vote'[r].votes, vote[r].pollId,
                                           vote[r].nOptions) IN
                  /\ DOMAIN counts = 0..(vote[r].nOptions - 1)
                  /\ \A k \in 0..(vote[r].nOptions - 1) :
                        counts[k] = Cardinality(Inserted(vote[r].pollId, k))
       /\ \A r \in VoteSlots :
             (vote[r].pc = "publish" /\ vote'[r].pc = "done" /\ DistinctVoters)
                => LET counts == published'[Len(published')].data.voteCounts IN
                     /\ counts[vote[r].optionIndex] >= 1
                     /\ \A k \in 0..(vote[r].nOptions - 1) :
                           counts[k] <= Cardinality(Inserted(vote[r].pollId, k))]_vars

\* Three wallets have voted on the poll, two for option 0 and one for
\* option 2, and the tally published by the request that read the ledger
\* last is 2, 0, 1.
C10_Witness ==
    /\ DistinctVoters
    /\ \A r \in VoteSlots : vote[r].pc = "done"
    /\ Cardinality(Inserted("p1", 0)) = 2
    /\ Cardinality(Inserted("p1", 2)) = 1
    /\ \E e \in 1..Len(published) :
          /\ published[e].type = "VOTE"
          /\ published[e].data.pollId = "p1"
          /\ published[e].data.voteCounts[0] = 2
          /\ published[e].data.voteCounts[1] = 0
          /\ published[e].data.voteCounts[2] = 1

\* C11: every tally computed for a poll counts only the VOTE Actions whose
\* payload names that poll: the counts of a state fetch of poll P, and those
\* of a VOTE event and response for P, are at no index more than the votes
\* the ledger holds for P at that index, so a vote cast on an earlier, closed
\* poll never contributes to the counts of the current one.
C11_TallyCountsOnlyVotesOfThePoll ==
    /\ fetched.pollId # "" =>
          \A k \in DOMAIN fetched.voteCounts :
              fetched.voteCounts[k] <= Cardinality(Inserted(fetched.pollId, k))
    /\ \A e \in 1..Len(published) :
          published[e].type = "VOTE" =>
              \A k \in DOMAIN published[e].data.voteCounts :
                  published[e].data.voteCounts[k]
                      <= Cardinality(Inserted(published[e].data.pollId, k))

----------------------------------------------------------------------------
(***************************************************************************)
(* Properties of the gate of the viewer actions                            *)
(***************************************************************************)

\* What the request of a slot found at its check: the Drop it read was
\* LAUNCHED with a mint, and the balance was at least the threshold it read.
Gated(req) ==
    /\ req.snap.status = "LAUNCHED"
    /\ req.snap.tokenMint # 0
    /\ req.balance >= req.snap.holderThresholdRaw

\* C12: viewer actions are gated.  A request goes past its check only if
\* the Drop it read was LAUNCHED with a mint and the wallet's balance met the
\* threshold (a request failing DropNotLaunched or InsufficientHolding takes
\* no further step); every Action persisted and every VOTE or TTS event
\* published is the step of such a request.
C12_ViewerActionsAreGated ==
    [][/\ \A r \in VoteSlots : vote'[r].pc = "lookup" => Gated(vote'[r])
       /\ \A r \in TtsSlots : tts'[r].pc = "insert" => Gated(tts'[r])
       /\ actions' # actions =>
             \/ \E r \in VoteSlots : /\ vote[r].pc = "insert" /\ vote'[r].pc = "tally"
                                     /\ Gated(vote[r])
                                     /\ actions' = Append(actions, actions'[Len(actions')])
                                     /\ actions'[Len(actions')].type = "VOTE"
                                     /\ actions'[Len(actions')].viewerWallet = vote[r].viewerWallet
             \/ \E r \in TtsSlots : /\ tts[r].pc = "insert" /\ tts'[r].pc = "publish"
                                    /\ Gated(tts[r])
                                    /\ actions' = Append(actions, actions'[Len(actions')])
                                    /\ actions'[Len(actions')].type = "TTS"
                                    /\ actions'[Len(actions')].viewerWallet = tts[r].viewerWallet
       /\ (published' # published /\ published'[Len(published')].type \in {"VOTE", "TTS"}) =>
             \/ \E r \in VoteSlots : /\ vote[r].pc = "publish" /\ vote'[r].pc = "done"
                                     /\ Gated(vote[r])
             \/ \E r \in TtsSlots : /\ tts[r].pc = "publish" /\ tts'[r].pc = "done"
                                    /\ Gated(tts[r])]_vars

\* A vote and a message went through the gate of the launched Drop, one of
\* them with a balance of zero after the owner opened the gate.
C12_Witness ==
    /\ drop.status = "LAUNCHED"
    /\ drop.holderThresholdRaw = 0
    /\ \E i \in 1..Len(actions) : actions[i].type = "VOTE"
    /\ \E i \in 1..Len(actions) : actions[i].type = "TTS"
    /\ \E e \in 1..Len(published) : published[e].type = "VOTE"
    /\ \E e \in 1..Len(published) : published[e].type = "TTS"
    /\ \E e \in 1..Len(published) : published[e].type = "DROP_LAUNCHED"

----------------------------------------------------------------------------
(***************************************************************************)
(* Properties of the token balances                                        *)
(***************************************************************************)

\* C13: MeetsThreshold with threshold "0" is always satisfied, whether the
\* balance came from a fresh query, from the cache or from the zero of the
\* fallback after a failed query with an empty cache.
C13_ZeroThresholdAlwaysMet ==
    (balanceReply.source # "" /\ balanceReply.thresholdRaw = 0) => balanceReply.meets

\* A check with threshold 0 was answered TRUE from the zero fallback: the
\* query failed and the cache has no entry for the wallet.
C13_Witness ==
    /\ balanceReply.source = "fallback"
    /\ balanceReply.thresholdRaw = 0
    /\ balanceReply.balance = 0
    /\ balanceReply.meets
    /\ balanceReply.key \notin DOMAIN balanceCache

\* The key of the call that slot r begins in this step.
CalledKey(r) == IF breq'[r].pc = "query" THEN breq'[r].key ELSE balanceReply'.key

\* C14: gate idempotence.  A GetBalance made while the cache holds an entry
\* of its (wallet, mint) younger than the TTL returns the balance of that
\* entry, issues no query to the RPC node and leaves the cache as it is.
C14_CachedBalanceWithinTtl ==
    [][\A r \in BalanceSlots :
          (/\ breq[r].pc = "idle" /\ breq'[r].pc # "idle"
           /\ CalledKey(r) \in DOMAIN balanceCache
           /\ now - balanceCache[CalledKey(r)].timestamp < TOKEN_BALANCE_CACHE_SECONDS)
             => /\ breq'[r].pc = "done"
                /\ upstreamQueries' = upstreamQueries
                /\ balanceReply'.source = "cache"
                /\ balanceReply'.balance = balanceCache[CalledKey(r)].balance
                /\ balanceCache' = balanceCache]_vars

\* One query stored a balance of 2, and a later call, 14 seconds on, was
\* answered 2 from the cache: still one query.
C14_Witness ==
    /\ balanceReply.source = "cache"
    /\ balanceReply.balance = 2
    /\ upstreamQueries = 1
    /\ now = TOKEN_BALANCE_CACHE_SECONDS - 1
    /\ balanceReply.key \in DOMAIN balanceCache
    /\ balanceCache[balanceReply.key].timestamp = 0

\* C15: when the query to the RPC node fails, GetBalance returns the value
\* the cache holds for the (wallet, mint) if there is one, however old, and
\* zero otherwise, and leaves the cache entry and its timestamp unchanged.
C15_FailureReturnsLastCachedValue ==
    [][\A r \in BalanceSlots :
          (breq[r].pc = "query" /\ breq'[r].pc = "done" /\ balanceReply'.source = "fallback")
             => /\ balanceReply'.balance =
                      (IF breq[r].key \in DOMAIN balanceCache
                       THEN balanceCache[breq[r].key].balance ELSE 0)
                /\ balanceCache' = balanceCache]_vars



\* The reply records a request: what changed in it tells the step of a
\* request from the steps that follow its awaits.
Replied ==
    \/ launchReply'.op # launchReply.op
    \/ launchReply'.caller # launchReply.caller
    \/ launchReply'.result # launchReply.result
    \/ launchReply'.status # launchReply.status
    \/ launchReply'.arg # launchReply.arg

NonOwnerRequest == Replied /\ launchReply'.caller # drop.ownerUserId

\* The bodies the handlers refuse before they read the Drop.
MalformedBody(reply) ==
    \/ reply.op \in {"confirm-fee-config", "confirm-launch"} /\ reply.arg = ""
    \/ reply.op = "threshold" /\ reply.arg < 0
    \/ reply.op = "create-poll" /\ ~createPollSchema(reply.arg[1], reply.arg[2])
    \/ reply.op = "confirm-claim" /\ Len(reply.arg) = 0

\* The Drop table without a row of the requested slug: no row matches the
\* slug and the caller.
NoSuchDrop == [NewDrop EXCEPT !.ownerUserId = ""]

\* What the handler of the request answers for a slug that does not exist.
MissingSlugOutcome(reply) ==
    IF reply.op = "threshold"
        THEN thresholdGuardOutcome(reply.caller, reply.arg, NoSuchDrop)
    ELSE IF reply.op = "create-poll"
        THEN pollGuardOutcome(reply.caller, reply.arg[1], reply.arg[2], NoSuchDrop)
    ELSE IF reply.op = "close-poll"
        THEN closePollGuardOutcome(reply.caller, NoSuchDrop)
    ELSE IF reply.op = "confirm-claim"
        THEN confirmClaimGuardOutcome(reply.caller, reply.arg, NoSuchDrop)
    ELSE guardOutcome(reply.op, reply.caller, reply.arg, NoSuchDrop)

\* The request changed no record, published no event and left no handler
\* running that could.
NothingDone ==
    /\ drop' = drop /\ polls' = polls /\ claims' = claims
    /\ published' = published
    /\ oreq' = oreq /\ preq' = preq /\ creq' = creq

\* C16 as stated: every mutating operation of an authenticated user who is
\* not the owner fails with NotFound, changes no Drop, Poll or Claim record
\* and publishes no event.
C16_NonOwnerGetsNotFound ==
    [][NonOwnerRequest => launchReply'.result = "NotFound" /\ NothingDone]_vars

\* C16 amended: a mutating operation of an authenticated user who is not the
\* owner fails with BadRequest when its body is malformed and with NotFound
\* otherwise, never with Forbidden, in both cases with the answer the same
\* request gets for a slug that does not exist; it changes no Drop, Poll or
\* Claim record and publishes no event.
C16_NonOwnerIsRefusedAsForAMissingSlug ==
    [][NonOwnerRequest =>
          /\ launchReply'.result =
                (IF MalformedBody(launchReply') THEN "BadRequest" ELSE "NotFound")
          /\ launchReply'.result # "Forbidden"
          /\ launchReply'.result = MissingSlugOutcome(launchReply')
          /\ NothingDone]_vars

\* A user who is not the owner asked to close a poll of a Drop whose token
\* info exists, and was told the Drop was not found.
C16_Witness ==
    /\ launchReply.op = "close-poll"
    /\ launchReply.caller = "other"
    /\ launchReply.result = "NotFound"
    /\ drop.status = "TOKEN_INFO_CREATED"

\* C17: AdvanceToTokenInfo of the owner on a Drop whose status is
\* CONFIG_CREATED or LAUNCHED fails with InvalidStateTransition, starts no
\* call of the launch service (no request is left awaiting it and no mint is
\* drawn), leaves every field of the Drop and the published events unchanged,
\* and the same call made again is refused in the same way.
C17_LateTokenInfoIsRefused ==
    [][(/\ Replied
        /\ launchReply'.op = "create-token-info"
        /\ launchReply'.caller = drop.ownerUserId
        /\ drop.status \in {"CONFIG_CREATED", "LAUNCHED"})
          => /\ launchReply'.result = "InvalidStateTransition"
             /\ oreq' = oreq
             /\ nextMint' = nextMint
             /\ drop' = drop
             /\ published' = published
             /\ guardOutcome("create-token-info", launchReply'.caller, "", drop')
                   = "InvalidStateTransition"]_vars

\* The owner asked for the token info of a launched Drop and was refused.
C17_Witness ==
    /\ launchReply.op = "create-token-info"
    /\ launchReply.caller = "owner"
    /\ launchReply.status = "LAUNCHED"
    /\ launchReply.result = "InvalidStateTransition"
    /\ drop.status = "LAUNCHED"

\* C18: a create-token-info request whose call of the launch service fails
\* or times out ends with an error and takes no further step, and the Drop is
\* as it was; no step of such a request changes the Drop before the launch
\* service has returned its artifacts, and the one step that does writes the
\* status TOKEN_INFO_CREATED together with the mint and the metadata
\* reference returned.  The mint, the metadata reference and the status
\* TOKEN_INFO_CREATED are written by no other step.
C18_FailedTokenInfoLeavesTheDrop ==
    [][/\ \A r \in OSlots :
            (oreq'[r].op = "create-token-info" /\ oreq'[r] # oreq[r])
               => /\ (oreq[r].pc = "await" /\ oreq'[r].pc = "done")
                        => oreq'[r].result = "UpstreamError"
                  /\ oreq'[r].result = "UpstreamError" => drop' = drop
                  /\ oreq'[r].minted = 0 => drop' = drop
                  /\ drop' # drop
                        => /\ oreq[r].minted # 0
                           /\ oreq'[r].result = "ok"
                           /\ drop'.status = "TOKEN_INFO_CREATED"
                           /\ drop'.tokenMint = oreq[r].minted
                           /\ drop'.tokenMetadataUrl = oreq[r].minted
       /\ \A r \in OSlots : oreq[r].result = "UpstreamError" => oreq'[r] = oreq[r]
       /\ (\/ drop'.tokenMint # drop.tokenMint
           \/ drop'.tokenMetadataUrl # drop.tokenMetadataUrl
           \/ (drop'.status # drop.status /\ drop'.status = "TOKEN_INFO_CREATED"))
               => \E r \in OSlots :
                     /\ oreq[r].op = "create-token-info"
                     /\ oreq[r].pc = "update"
                     /\ oreq[r].minted # 0
                     /\ oreq'[r].pc = "done"]_vars

\* A create-token-info request ended with the error of the launch service,
\* and the Drop is the draft it was.
C18_Witness ==
    \E r \in OSlots :
       /\ oreq[r].op = "create-token-info"
       /\ oreq[r].result = "UpstreamError"
       /\ drop = NewDrop

\* A socket is registered under a slug from its connection with that slug
\* until its close handler has run.
Registered(ws, slug) == slugOf[ws] = slug /\ readyState[ws] \in {"OPEN", "CLOSING"}

\* The call of broadcastToOverlay made in a step.
Broadcasting == Len(broadcasts') = Len(broadcasts) + 1

LastBroadcast == broadcasts'[Len(broadcasts')]

\* C20: a call of broadcastToOverlay(slug, message) appends the message
\* exactly once to what each socket registered under the slug with an open
\* transport has been sent, and sends nothing to any other socket: not to
\* one registered under the slug whose transport is not open, and not to one
\* registered under another slug.
C20_PublishReachesTheOpenSubscribersOfTheKey ==
    [][Broadcasting =>
          \A ws \in Sockets :
             received'[ws] =
                IF Registered(ws, LastBroadcast.slug) /\ readyState[ws] = "OPEN"
                THEN Append(received[ws], LastBroadcast.message)
                ELSE received[ws]]_vars

\* One event was published under the slug of the Drop: a socket registered
\* under it has been sent the event after its CONNECTED, another registered
\* under it is closing and has not, and none is registered under the other
\* slug.
C20_Witness ==
    /\ Len(broadcasts) = 1
    /\ broadcasts[1].slug = DropSlug
    /\ \E ws1, ws2 \in Sockets :
          /\ Registered(ws1, DropSlug) /\ Registered(ws2, DropSlug)
          /\ Len(received[ws1]) = 2
          /\ received[ws1][2] = broadcasts[1].message
          /\ readyState[ws2] = "CLOSING"
          /\ Len(received[ws2]) = 1

\* C19: what a socket has been sent starts with CONNECTED, which it is sent
\* once; and when a vote handler publishes, every socket registered under
\* the slug of the Drop with an open transport is sent, after what it was
\* sent before, the VOTE event of that vote, whose voteCounts count the vote
\* (for the only vote of the ledger, at index 0 of the fresh poll of two
\* options: [1, 0]).
C19_SubscriberGetsConnectedThenTheVote ==
    [][/\ \A ws \in Sockets :
            received'[ws] # <<>>
               => /\ received'[ws][1].type = "CONNECTED"
                  /\ \A i \in 2..Len(received'[ws]) : received'[ws][i].type # "CONNECTED"
       /\ \A r \in VoteSlots :
            (vote[r].pc = "publish" /\ vote'[r].pc = "done")
               => \A ws \in Sockets :
                     (Registered(ws, DropSlug) /\ readyState[ws] = "OPEN")
                        => /\ Len(received'[ws]) = Len(received[ws]) + 1
                           /\ LET e == received'[ws][Len(received'[ws])] IN
                                /\ e.type = "VOTE"
                                /\ e.data.pollId = vote[r].pollId
                                /\ e.data.optionIndex = vote[r].optionIndex
                                /\ e.data.voteCounts[vote[r].optionIndex] >= 1
                                /\ (Len(actions) = 1 /\ vote[r].optionIndex = 0)
                                      => e.data.voteCounts = (0 :> 1 @@ 1 :> 0)]_vars

\* A socket registered under the slug of the Drop has been sent CONNECTED
\* and then the VOTE event of the first vote, at index 0, with the counts
\* [1, 0].
C19_Witness ==
    \E ws \in Sockets :
       /\ slugOf[ws] = DropSlug
       /\ Len(received[ws]) = 2
       /\ received[ws][1].type = "CONNECTED"
       /\ received[ws][2].type = "VOTE"
       /\ received[ws][2].data.optionIndex = 0
       /\ received[ws][2].data.voteCounts = (0 :> 1 @@ 1 :> 0)
       /\ Len(actions) = 1

\* C21: a call of broadcastToOverlay for a slug without registered sockets
\* changes neither the registry nor what any socket has been sent; a socket
\* that connects has been sent CONNECTED and nothing else; and what a socket
\* has been sent grows only by its CONNECTED, by a PONG, or by the message
\* of the call of broadcastToOverlay made in the same step: no event is kept
\* and sent later.
C21_NoBufferingNoReplay ==
    [][/\ (Broadcasting /\ \A ws \in Sockets : ~Registered(ws, LastBroadcast.slug))
            => /\ overlayClients' = overlayClients
               /\ received' = received
               /\ readyState' = readyState
       /\ \A ws \in Sockets :
            (readyState[ws] = "NONE" /\ readyState'[ws] # "NONE")
               => received'[ws] = <<[type |-> "CONNECTED", data |-> [slug |-> slugOf'[ws]]]>>
       /\ \A ws \in Sockets :
            (readyState[ws] # "NONE" /\ received'[ws] # received[ws])
               => \/ received'[ws] = Append(received[ws], [type |-> "PONG"])
                  \/ /\ Broadcasting
                     /\ Registered(ws, LastBroadcast.slug)
                     /\ received'[ws] = Append(received[ws], LastBroadcast.message)]_vars

\* An event was published under a slug, and the only socket connected, which
\* is registered under that slug, has been sent its CONNECTED alone: it
\* registered after the event.
C21_Witness ==
    /\ Len(broadcasts) = 1
    /\ readyState[1] = "OPEN"
    /\ slugOf[1] = broadcasts[1].slug
    /\ Len(received[1]) = 1
    /\ \A ws \in Sockets : ws # 1 => readyState[ws] = "NONE"

\* C22: the registry holds no slug with an empty set of sockets, and
\* getOverlayClientCount(slug) is the number of sockets that connected with
\* the slug and whose close handler has not run.
C22_NoEmptyEntryAndCountsMatch ==
    /\ \A slug \in DOMAIN overlayClients : overlayClients[slug] # {}
    /\ DOMAIN overlayClients \subseteq Slugs
    /\ \A slug \in Slugs :
          getOverlayClientCount(overlayClients, slug)
             = Cardinality({ws \in Sockets : Registered(ws, slug)})

\* The last socket of a slug has closed and the slug has left the registry,
\* while the other slug keeps its socket.
C22_Witness ==
    \E ws1, ws2 \in Sockets :
       /\ readyState[ws1] = "CLOSED"
       /\ slugOf[ws1] \notin DOMAIN overlayClients
       /\ readyState[ws2] = "OPEN"
       /\ slugOf[ws2] \in DOMAIN overlayClients

\* C23: after the error handler of a socket has run, the socket is no longer
\* registered under its slug.
C23_ErrorRemovesTheRegistration ==
    \A i \in 1..Len(errorLog) :
       errorLog[i] \notin clientsOf(overlayClients, slugOf[errorLog[i]])

ActivePolls(ps) == {p \in ps : p.isActive}

\* C24: after every step at most one Poll of the Drop is active, and the
\* step that closes a Poll makes no Poll active that was not.
C24_AtMostOneActivePoll ==
    [][/\ Cardinality(ActivePolls(polls')) <= 1
       /\ \A r \in ClaimSlots :
            (creq[r].pc = "close" /\ creq'[r].pc # "close")
               => {p.id : p \in ActivePolls(polls')} \subseteq
                     {p.id : p \in ActivePolls(polls)}]_vars

\* C25: the step in which a confirm-fee-config request of the owner ends
\* successfully leaves the Drop with the config key of the request and the
\* status CONFIG_CREATED, and an event of the request has been published.
C25_ConfirmConfigPersistsAndPublishes ==
    [][\A r \in OSlots :
          (/\ oreq[r].op = "confirm-fee-config"
           /\ oreq[r].result # "ok"
           /\ oreq'[r].result = "ok")
             => /\ oreq[r].snap.status = "TOKEN_INFO_CREATED"
                /\ oreq[r].caller = drop.ownerUserId
                /\ drop'.configKey = oreq[r].arg
                /\ drop'.status = "CONFIG_CREATED"
                /\ \E i \in 1..Len(published') :
                      published'[i].type # "DROP_LAUNCHED"]_vars

\* C26: the update of a confirm-launch request of the owner that read the
\* status CONFIG_CREATED leaves the Drop with the signature of the request
\* and the status LAUNCHED; the request then publishes a DROP_LAUNCHED event
\* with the mint of the Drop and that signature, and ends successfully; and
\* a DROP_LAUNCHED event is published only by a request whose update has
\* been made.
C26_ConfirmLaunchPersistsThenPublishes ==
    [][/\ \A r \in OSlots :
            (oreq[r].op = "confirm-launch" /\ oreq[r].pc = "update"
                /\ oreq'[r].pc # "update")
               => /\ oreq[r].snap.status = "CONFIG_CREATED"
                  /\ oreq[r].caller = drop.ownerUserId
                  /\ drop'.launchSig = oreq[r].arg
                  /\ drop'.status = "LAUNCHED"
                  /\ oreq'[r].pc = "publish"
       /\ \A r \in OSlots :
            (oreq[r].pc = "publish" /\ oreq'[r].pc # "publish")
               => /\ oreq'[r].result = "ok"
                  /\ published' = Append(published,
                        [type |-> "DROP_LAUNCHED",
                         data |-> [tokenMint |-> drop.tokenMint,
                                   launchSig |-> oreq[r].arg]])
       /\ published' # published
            => \E r \in OSlots :
                  oreq[r].op = "confirm-launch" /\ oreq[r].pc = "publish"]_vars

\* C27: a threshold request of the owner with a string of digits passes its
\* checks whatever the status of the Drop; its update writes the threshold of
\* the request and no other field of the Drop; it then publishes
\* THRESHOLD_UPDATED with that threshold, changes nothing in the Drop, and
\* ends successfully.
C27_ThresholdUpdatesInEveryStatus ==
    [][/\ (/\ Replied
           /\ launchReply'.op = "threshold"
           /\ launchReply'.caller = drop.ownerUserId
           /\ launchReply'.arg >= 0)
             => /\ launchReply'.result = "pass"
                /\ \E r \in OSlots : oreq[r].pc = "idle" /\ oreq'[r].op = "threshold"
       /\ \A r \in OSlots :
            (oreq[r].op = "threshold" /\ oreq[r].pc = "threshold-update"
                /\ oreq'[r].pc # "threshold-update")
               => /\ drop' = [drop EXCEPT !.holderThresholdRaw = oreq[r].arg]
                  /\ oreq'[r].pc = "threshold-publish"
       /\ \A r \in OSlots :
            (oreq[r].op = "threshold" /\ oreq[r].pc = "threshold-publish"
                /\ oreq'[r].pc # "threshold-publish")
               => /\ published' = Append(published,
                        [type |-> "THRESHOLD_UPDATED",
                         data |-> [holderThresholdRaw |-> oreq[r].arg]])
                  /\ drop' = drop
                  /\ oreq'[r].result = "ok"]_vars

\* The owner has set the threshold of a launched Drop to 0: the request read
\* the status LAUNCHED and ended successfully, the event is published, and
\* the Drop is launched with its mint and its signature as before.
C27_Witness ==
    \E r \in OSlots :
       /\ oreq[r].op = "threshold"
       /\ oreq[r].result = "ok"
       /\ oreq[r].snap.status = "LAUNCHED"
       /\ oreq[r].arg = 0
       /\ drop.holderThresholdRaw = 0
       /\ drop.status = "LAUNCHED"
       /\ drop.tokenMint # 0
       /\ drop.launchSig = "sig1"
       /\ published[Len(published)].type = "THRESHOLD_UPDATED"


\* A request body that is a URL with blanks around it and nothing else.
UrlAndWhitespace == {"http://a.io", "http://a.io "}

\* C28: a message that consists solely of a URL and whitespace is rejected by
\* sanitizeTtsMessage: its request ends with the rejection, no Action with
\* its text is persisted and no TTS event with it is published.
C28_UrlOnlyMessageIsRejected ==
    /\ \A r \in TtsSlots :
          tts[r].body \in UrlAndWhitespace =>
             /\ sanitizeTtsMessage(tts[r].body) = ""
             /\ tts[r].pc = "idle"
    /\ \A i \in 1..Len(actions) :
          actions[i].type = "TTS" =>
             actions[i].payloadJson # stringifyMessage("[link removed]")
    /\ \A e \in 1..Len(published) :
          published[e].type = "TTS" => published[e].data.message # "[link removed]"


\* The fee split of a Drop record.
FeeSplit(d) == <<d.streamerBps, d.prizePoolBps>>

SplitsTheWhole(pair) ==
    /\ pair[1] \in 0..10000
    /\ pair[2] \in 0..10000
    /\ pair[1] + pair[2] = 10000

\* C29: every persisted Drop has a fee split of two parts of 0..10000 that
\* sum to 10000: CreateDraft refuses any other pair and writes nothing for
\* it, and no operation changes the pair of a Drop once it is persisted.
C29_FeeSplitSumsToTheWhole ==
    [][/\ (Replied /\ launchReply'.op = "create-draft"
                   /\ ~SplitsTheWhole(launchReply'.arg))
            => /\ launchReply'.result = "InvalidInput"
               /\ drop' = drop
       /\ drop' # NoDrop => SplitsTheWhole(FeeSplit(drop'))
       /\ drop # NoDrop => FeeSplit(drop') = FeeSplit(drop)]_vars

\* A Drop created with an uneven split went through to LAUNCHED and had its
\* threshold moved.
C29_Witness ==
    /\ drop.status = "LAUNCHED"
    /\ FeeSplit(drop) = <<10000, 0>>
    /\ drop.holderThresholdRaw = 0


\* The wallet's stored challenge was issued more than the TTL ago.
NonceExpired(store, w, t) ==
    w \in DOMAIN store /\ t - store[w].issuedAtMs > NONCE_TTL_SEC

\* C30: a Nonce older than the TTL is never consumable: a verification that
\* presents a challenge issued more than the TTL ago is answered
\* NonceExpiredOrMissing, goes on in no slot, and the Nonce is deleted; and
\* after any IssueChallenge the store holds no Nonce older than the TTL.
C30_ExpiredNonceIsNeverConsumable ==
    [][/\ (/\ VerifyStep
           /\ NonceExpired(nonceStore, verifyReply'.wallet, now)
           /\ verifyReply'.message = nonceStore[verifyReply'.wallet].message)
             => /\ verifyReply'.result = "NonceExpiredOrMissing"
                /\ vreq' = vreq
                /\ verifyReply'.wallet \notin DOMAIN nonceStore'
       /\ issued' # issued
             => \A w \in DOMAIN nonceStore' : ~NonceExpired(nonceStore', w, now')]_vars


\* C31: a wallet with a VOTE Action for the poll cannot vote on it again: a
\* later vote of the wallet for the poll, for any option, that reaches the
\* search for an earlier vote ends there with DuplicateVote, nothing is
\* persisted or published by it, and no request goes on to its insertion
\* from a state in which the ledger holds a vote of its wallet for its poll.
C31_SecondVoteIsRefused ==
    [][\A r \in VoteSlots :
          /\ (/\ vote[r].pc = "lookup" /\ vote'[r].pc # "lookup"
              /\ VotesOf(vote[r].viewerWallet, vote[r].pollId) # {})
                => /\ vote'[r].pc = "duplicate"
                   /\ actions' = actions
                   /\ published' = published
          /\ (vote[r].pc # "insert" /\ vote'[r].pc = "insert")
                => VotesOf(vote'[r].viewerWallet, vote'[r].pollId) = {}]_vars

\* A wallet voted, its request ran to its end, and a later request of the
\* wallet for the same poll was refused as a duplicate: the ledger holds the
\* one vote and one VOTE event was published.
C31_Witness ==
    /\ vote[1].pc = "done"
    /\ vote[2].pc = "duplicate"
    /\ Len(actions) = 1
    /\ Len(published) = 1


\* C32: in every reachable state the artifacts of the completed steps are
\* present: past DRAFT the asset id and the metadata reference, from
\* CONFIG_CREATED on the config key, and in LAUNCHED the launch signature.
C32_ArtifactsOfCompletedStepsArePresent ==
    /\ drop.status \in {"TOKEN_INFO_CREATED", "CONFIG_CREATED", "LAUNCHED"}
          => drop.tokenMint # 0 /\ drop.tokenMetadataUrl # 0
    /\ drop.status \in {"CONFIG_CREATED", "LAUNCHED"} => drop.configKey # ""
    /\ drop.status = "LAUNCHED" => drop.launchSig # ""


\* The number of votes a tally counts: the sum of its entries.
RECURSIVE SumUpTo(_, _)
SumUpTo(counts, k) == IF k < 0 THEN 0 ELSE counts[k] + SumUpTo(counts, k - 1)

CountedVotes(counts) == SumUpTo(counts, Cardinality(DOMAIN counts) - 1)

\* C33: the VOTE events of a poll are published in the order of their
\* tallies: no VOTE event carries a tally that counts fewer votes than a
\* VOTE event published before it for the same poll, whatever the
\* interleaving of the persist, recompute and publish steps of the requests.
C33_NoStaleTallyAfterANewerOne ==
    \A e1, e2 \in 1..Len(published) :
        (/\ e1 < e2
         /\ published[e1].type = "VOTE" /\ published[e2].type = "VOTE"
         /\ published[e1].data.pollId = published[e2].data.pollId)
           => CountedVotes(published[e2].data.voteCounts)
                 >= CountedVotes(published[e1].data.voteCounts)


\* C34: for every message and every configured maximum length L > 0, a
\* result of sanitizeTtsMessage that is not a rejection has at most L
\* characters, and a result that was truncated ends with the ellipsis.
C34_ResultFitsTheConfiguredLength ==
    (sanitized.pc = "returned" /\ ~sanitized.rejected) =>
        /\ Len(sanitized.cleaned) <= sanitized.maxLength
        /\ Len(joinWords(replaceSpam(trimText(sanitized.message)))) > sanitized.maxLength
              => /\ Len(sanitized.cleaned) >= 3
                 /\ SubSeq(sanitized.cleaned, Len(sanitized.cleaned) - 2,
                           Len(sanitized.cleaned)) = Ellipsis


PrepareOps == {"create-fee-config", "create-launch-tx"}

\* C35: the prepare steps AdvanceToConfigPending and PrepareLaunchTransaction
\* never change the Drop's status, neither when they are refused, nor when
\* the launch service returns, nor when it fails; the status moves past
\* TOKEN_INFO_CREATED only by the update of a ConfirmConfig or ConfirmLaunch.
C35_PrepareStepsLeaveTheStatus ==
    [][/\ (Replied /\ launchReply'.op \in PrepareOps) => drop' = drop
       /\ \A r \in OSlots :
             (oreq[r].op \in PrepareOps /\ oreq'[r] # oreq[r]) => drop' = drop
       /\ (/\ drop'.status # drop.status
           /\ drop'.status \in {"CONFIG_CREATED", "LAUNCHED"})
             => \E r \in OSlots :
                   /\ oreq[r].pc = "update" /\ oreq'[r].pc # "update"
                   /\ \/ oreq[r].op = "confirm-fee-config" /\ drop'.status = "CONFIG_CREATED"
                      \/ oreq[r].op = "confirm-launch" /\ drop'.status = "LAUNCHED"]_vars

\* The prepare step of the fee configuration has run twice, once with the
\* transactions returned and once with a failure of the launch service, and
\* the Drop is where create-token-info left it.
C35_Witness ==
    /\ drop.status = "TOKEN_INFO_CREATED"
    /\ \E r, q \in OSlots :
          /\ oreq[r].op = "create-fee-config" /\ oreq[r].pc = "done"
          /\ oreq[r].result = "ok" /\ oreq[r].snap.status = "TOKEN_INFO_CREATED"
          /\ oreq[q].op = "create-fee-config" /\ oreq[q].pc = "done"
          /\ oreq[q].result = "UpstreamError"


\* The status of a Drop and the artifacts of its launch steps.
LaunchRecord(d) ==
    <<d.status, d.tokenMint, d.tokenMetadataUrl, d.configKey, d.launchSig>>

LaunchedEvents(events) ==
    {e \in 1..Len(events) : events[e].type = "DROP_LAUNCHED"}

\* C36: the launch is irreversible: once the status is LAUNCHED, the status,
\* the asset id, the metadata reference, the config key and the launch
\* signature never change again, whatever the owner's requests and their
\* interleaving, and at most one DROP_LAUNCHED event is published.
C36_LaunchIsIrreversible ==
    [][/\ drop.status = "LAUNCHED" => LaunchRecord(drop') = LaunchRecord(drop)
       /\ Cardinality(LaunchedEvents(published')) <= 1]_vars


\* C37: at most one User exists per wallet, and every verification that
\* passed the check of its signature, also one whose find-or-create of the
\* user interleaved with that of another verification for the wallet, ended
\* with a session of the wallet's one User.
C37_OneUserAndASessionPerVerification ==
    /\ \A w \in Wallets : Cardinality(UserOf(w)) <= 1
    /\ \A r \in VSlots :
          vreq[r].pc = "done" =>
             /\ vreq[r].result = "ok"
             /\ Cardinality(UserOf(vreq[r].wallet)) = 1
             /\ \E session \in sessions :
                   /\ session.cookieTokenHash = hashSessionToken(vreq[r].token)
                   /\ \A u \in UserOf(vreq[r].wallet) : session.userId = u.id


\* The mints the launch service has returned for the Drop so far: they are
\* numbered from 1 in the order of their creation.
MintsReturned == 1..(nextMint - 1)

\* C38: the launch service creates the token info of a Drop at most once,
\* also when several create-token-info requests for the DRAFT Drop overlap,
\* and the asset id stored on the Drop is the one that invocation returned.
C38_TokenInfoCreatedAtMostOnce ==
    /\ Cardinality(MintsReturned) <= 1
    /\ drop.tokenMint # 0 => MintsReturned = {drop.tokenMint}


\* The Action a step appends to the ledger.
InsertedAction == actions'[Len(actions')]

\* C39: every VOTE Action refers to a Poll of the Drop that is active at the
\* moment the Action is inserted, with an option index within the options
\* of that Poll, also when the owner closes the poll or opens a new one
\* while the vote is on its way.
C39_VoteInsertedForAnActivePoll ==
    [][(Len(actions') = Len(actions) + 1 /\ InsertedAction.type = "VOTE")
          => \E p \in polls :
                /\ p.id = parseVote(InsertedAction.payloadJson).pollId
                /\ p.isActive
                /\ parseVote(InsertedAction.payloadJson).optionIndex >= 0
                /\ parseVote(InsertedAction.payloadJson).optionIndex < Len(p.options)]_vars


\* The calls that are waiting for the RPC node's answer for a cache key.
QueriesInFlight(key) == {r \in BalanceSlots : breq[r].pc = "query" /\ breq[r].key = key}

\* C40: the callers of GetBalance for one (wallet, asset) that find the
\* cache entry missing or older than the TTL at the same time cause one
\* query of the ledger between them: at no moment are two queries for the
\* same key on their way.  (With one query per key on its way at a time,
\* the entry written last is that of the query issued last.)
C40_OneUpstreamQueryPerKey ==
    \A w \in BalanceWallets, mint \in BalanceMints :
        Cardinality(QueriesInFlight(cacheKey(w, mint))) <= 1

=============================================================================
